---- MODULE Spec2Model ----
(***************************************************************************)
(* Model of the bridge-design service: the Flask endpoint                  *)
(* generate_design_api (app.py), BridgeService (services/bridge_service.py)*)
(* and the provider failover of LLMService (services/llm_service.py).      *)
(*                                                                         *)
(* Representation.                                                         *)
(*  - A Python str is a sequence of one-character strings, so that `in`,   *)
(*    lower(), replace(), strip() and re.search are computed, not assumed. *)
(*  - A Python number is a decimal [m, e] standing for m / 10^e, kept      *)
(*    normalised (no trailing zero in the fraction), so that equal values  *)
(*    are equal records.  Every number that occurs is a short decimal, for *)
(*    which the float operations used by the code (comparison with 0,      *)
(*    n * 3.5 + 3.0, str, float) are exact.  A quotient that is no short   *)
(*    decimal (a span over a depth, a span over 16) is the fraction        *)
(*    [n, d] in lowest terms.                                              *)
(*  - A dict is a record; a key that is missing holds Absent, a key whose  *)
(*    value is JSON null / None holds Null.                                *)
(***************************************************************************)
EXTENDS Integers, Sequences, FiniteSets, TLC

\* Values are tagged, as Python's are: a missing dict key, None, a str, a number.
Absent == [k |-> "absent"]

Null == [k |-> "null"]

Str(s) == [k |-> "str", s |-> s]

\* bool(v)
Truthy(v) ==
    CASE v.k = "num" -> v.m # 0
      [] v.k = "rat" -> v.n # 0
      [] v.k = "str" -> v.s # << >>
      [] OTHER -> FALSE

(***************************************************************************)
(* Characters and strings                                                  *)
(***************************************************************************)
Digits == <<"0", "1", "2", "3", "4", "5", "6", "7", "8", "9">>

IsDigit(c) == \E d \in 1..10 : Digits[d] = c

DigitVal(c) == (CHOOSE d \in 1..10 : Digits[d] = c) - 1

IsSpace(c) == c \in {" ", "\t", "\n"}

Upper == <<"A","B","C","D","E","F","G","H","I","J","K","L","M","N","O","P","Q","R","S","T","U","V","W","X","Y","Z">>

LowerLetters == <<"a","b","c","d","e","f","g","h","i","j","k","l","m","n","o","p","q","r","s","t","u","v","w","x","y","z">>

LowerChar(c) ==
    IF \E k \in 1..26 : Upper[k] = c
    THEN LowerLetters[CHOOSE k \in 1..26 : Upper[k] = c]
    ELSE c

\* str.lower()
Lower(s) == [i \in 1..Len(s) |-> LowerChar(s[i])]

\* the index of the first occurrence of kw in s at or after position from, 0 if none (str.find + 1)
Find(s, kw, from) ==
    LET hits == {i \in from..(Len(s) - Len(kw) + 1) : SubSeq(s, i, i + Len(kw) - 1) = kw}
    IN  IF hits = {} THEN 0 ELSE CHOOSE i \in hits : \A j \in hits : i <= j

\* kw in s
Contains(s, kw) == Find(s, kw, 1) # 0

\* s.replace(old, new), old non-empty: every non-overlapping occurrence, left to right
RECURSIVE Replace(_, _, _)
Replace(s, old, new) ==
    LET i == Find(s, old, 1)
    IN  IF i = 0 THEN s
        ELSE SubSeq(s, 1, i - 1) \o new \o Replace(SubSeq(s, i + Len(old), Len(s)), old, new)

\* s.strip()
Strip(s) ==
    LET keep == {i \in 1..Len(s) : ~IsSpace(s[i])}
    IN  IF keep = {} THEN << >>
        ELSE SubSeq(s, CHOOSE i \in keep : \A j \in keep : i <= j,
                       CHOOSE i \in keep : \A j \in keep : i >= j)

(***************************************************************************)
(* Numbers                                                                 *)
(***************************************************************************)
RECURSIVE Pow10(_)
Pow10(e) == IF e = 0 THEN 1 ELSE 10 * Pow10(e - 1)

Abs(n) == IF n < 0 THEN -n ELSE n

\* the decimal m / 10^e, normalised
RECURSIVE Dec(_, _)
Dec(m, e) == IF e > 0 /\ m % 10 = 0 THEN Dec(m \div 10, e - 1) ELSE [k |-> "num", m |-> m, e |-> e]

\* str(n) of a non-negative int
RECURSIVE IntStr(_)
IntStr(n) == IF n < 10 THEN <<Digits[n + 1]>> ELSE IntStr(n \div 10) \o <<Digits[(n % 10) + 1]>>

\* the e digits of the fraction f, leading zeros kept
RECURSIVE FracStr(_, _)
FracStr(f, e) == IF e = 0 THEN << >> ELSE FracStr(f \div 10, e - 1) \o <<Digits[(f % 10) + 1]>>

\* str(v) of a number: "60", "-60", "60.5" (a whole float prints "60.0", which reads back as the same value)
NumStr(v) ==
    LET a == Abs(v.m)
        sign == IF v.m < 0 THEN <<"-">> ELSE << >>
    IN  IF v.e = 0 THEN sign \o IntStr(a)
        ELSE sign \o IntStr(a \div Pow10(v.e)) \o <<".">> \o FracStr(a % Pow10(v.e), v.e)

\* int(digits) of a possibly empty run of digits
RECURSIVE DigitsVal(_)
DigitsVal(ds) ==
    IF ds = << >> THEN 0
    ELSE 10 * DigitsVal(SubSeq(ds, 1, Len(ds) - 1)) + DigitVal(ds[Len(ds)])

\* float(g) of a text matched by \d+\.?\d*
ParseFloat(g) ==
    LET dot == Find(g, <<".">>, 1)
    IN  IF dot = 0 THEN Dec(DigitsVal(g), 0)
        ELSE Dec(DigitsVal(SubSeq(g, 1, dot - 1) \o SubSeq(g, dot + 1, Len(g))), Len(g) - dot)

\* round(num / den) to the nearest integer, num >= 0, den > 0 (no tie arises for the decimals used)
RoundDiv(num, den) == (2 * num + den) \div (2 * den)

(***************************************************************************)
(* Regular expressions of bridge_service.py                                *)
(***************************************************************************)
\* the last index of the maximal run of digits starting at i (i - 1 if s[i] is no digit)
DigitsEnd(s, i) ==
    CHOOSE j \in (i - 1)..Len(s) :
        /\ \A k \in i..j : IsDigit(s[k])
        /\ (j = Len(s) \/ ~IsDigit(s[j + 1]))

\* the same for whitespace
SpacesEnd(s, i) ==
    CHOOSE j \in (i - 1)..Len(s) :
        /\ \A k \in i..j : IsSpace(s[k])
        /\ (j = Len(s) \/ ~IsSpace(s[j + 1]))

\* the end of the greedy match of \d+\.?\d* starting at the digit s[i]
GroupEnd(s, i) ==
    LET a == DigitsEnd(s, i)
    IN  IF a < Len(s) /\ s[a + 1] = "." THEN DigitsEnd(s, a + 2) ELSE a

\* re.search(r"(\d+\.?\d*)", s): group 1 of the leftmost match, None if there is none
SearchNumber(s) ==
    LET starts == {i \in 1..Len(s) : IsDigit(s[i])}
    IN  IF starts = {} THEN Null
        ELSE LET i == CHOOSE a \in starts : \A b \in starts : a <= b
             IN  Str(SubSeq(s, i, GroupEnd(s, i)))

\* \d+\.?\d*\s*m matches at i (giving digits back to the group never helps: after the
\* greedy group comes no digit, and after a dot given back comes the dot itself)
MatchesMetres(s, i) ==
    /\ IsDigit(s[i])
    /\ LET w == SpacesEnd(s, GroupEnd(s, i) + 1)
       IN  w < Len(s) /\ s[w + 1] = "m"

\* re.search(r"(\d+\.?\d*)\s*m", s): group 1 of the leftmost match, None if there is none
SearchMetres(s) ==
    LET starts == {i \in 1..Len(s) : MatchesMetres(s, i)}
    IN  IF starts = {} THEN Null
        ELSE LET i == CHOOSE a \in starts : \A b \in starts : a <= b
             IN  Str(SubSeq(s, i, GroupEnd(s, i)))

\* a + b
Add(a, b) ==
    LET e == IF a.e > b.e THEN a.e ELSE b.e
    IN  Dec(a.m * Pow10(e - a.e) + b.m * Pow10(e - b.e), e)

\* n * a, n an int
Times(n, a) == Dec(n * a.m, a.e)

\* round(a / n, 2), a >= 0, n a positive int
RoundedQuotient(a, n) == Dec(RoundDiv(a.m * 100, n * Pow10(a.e)), 2)

\* dict.get(key, default)
Get(v, default) == IF v = Absent THEN default ELSE v

\* the characters of v if it is a str, of "" otherwise
TextOf(v) == IF v.k = "str" THEN v.s ELSE << >>

(***************************************************************************)
(* State                                                                   *)
(***************************************************************************)
VARIABLES
    pc,                \* request thread -> where it stands in generate_design_api
    body,              \* request thread -> request.json
    llm_reply,         \* request thread -> what analyze_text_with_failover returns for its text
    analyzed_params,   \* request thread -> local of generate_preliminary_design
    locals,            \* request thread -> refined_params, span_source_text, num_lanes at return
    design,            \* request thread -> the BridgeDesign returned to the endpoint
    response,          \* request thread -> HTTP status answered
    reg,               \* request thread -> the value read by the load half of a `+= 1`
    design_gen_stats,  \* BridgeService.design_gen_stats, shared by all request threads
    llm_config,        \* LLMService: which providers are configured
    call_stats,        \* LLMService.call_stats
    llm_pc,            \* where the running analyze_text_with_failover stands
    attempt,           \* loop variable of the running _call_deepseek or _call_ollama
    last_exception_info, \* its local of that name: how the last failed pass ended, "None" at first
    results,           \* deepseek_result, ollama_result, qwen_result of the running analysis
    calls,             \* the provider calls of the running analysis, in the order they were made
    returned,          \* the (result, provider) pair the last analysis returned
    analyses,          \* number of analyses started
    gen_pc,            \* where the running DesignGenerator.generate_design_scheme stands
    requirements,      \* its argument
    llm_generated_scheme, \* what its _call_llm_service returned
    calculated_scheme, \* what its _perform_parameter_calculation returned
    verify_locals,     \* the outcome and message of each check of its _verify_design
    verification_notes,\* what its _verify_design returned
    final_design,      \* what it returned
    call,              \* a direct call of a validator, geometry or scene function: name and arguments
    call_result        \* what that call returned

api_vars == <<pc, body, llm_reply, analyzed_params, locals, design, response, reg, design_gen_stats>>

llm_vars ==
    <<llm_config, call_stats, llm_pc, attempt, last_exception_info, results, calls, returned,
      analyses>>

gen_vars ==
    <<gen_pc, requirements, llm_generated_scheme, calculated_scheme, verify_locals,
      verification_notes, final_design>>

fn_vars == <<call, call_result>>

vars == <<api_vars, llm_vars, gen_vars, fn_vars>>

Threads == DOMAIN pc

(***************************************************************************)
(* BridgeService.analyze_user_requirements                                 *)
(***************************************************************************)
NoParams ==
    [bridge_type_preference |-> Absent, specific_materials |-> Absent,
     span_length_description |-> Absent, estimated_span_meters |-> Absent,
     road_lanes_description |-> Absent, assumed_bridge_width |-> Absent,
     load_requirements |-> Absent]

\* reply.kind: "params" a non-empty dict without a truthy "error", "error" a dict with one,
\* "empty" an empty dict or None
analyze_user_requirements(reply) ==
    IF reply.kind = "params"
    THEN [error |-> Absent, params |-> reply.params]
    ELSE [error |-> Str(<<"F","a","i","l","e","d"," ","t","o"," ","e","x","t","r","a","c","t"," ","p","a","r","a","m","e","t","e","r","s"," ","u","s","i","n","g"," ","L","L","M",".">>), params |-> NoParams]

(***************************************************************************)
(* BridgeService.refine_parameters_with_knowledge                          *)
(***************************************************************************)
BaseType(bt_pref) ==
    IF Contains(bt_pref, <<"b","e","a","m">>) \/ Contains(bt_pref, <<"g","i","r","d","e","r">>)
    THEN IF Contains(bt_pref, <<"c","o","n","t","i","n","u","o","u","s">>)
         THEN <<"C","o","n","t","i","n","u","o","u","s"," ">> \o <<"B","e","a","m"," ","B","r","i","d","g","e">>
         ELSE <<"B","e","a","m"," ","B","r","i","d","g","e">>
    ELSE IF Contains(bt_pref, <<"a","r","c","h">>) THEN <<"A","r","c","h"," ","B","r","i","d","g","e">>
    ELSE IF Contains(bt_pref, <<"c","a","b","l","e","-","s","t","a","y","e","d">>) \/ Contains(bt_pref, <<"c","a","b","l","e"," ","s","t","a","y","e","d">>)
         THEN <<"C","a","b","l","e","-","S","t","a","y","e","d"," ","B","r","i","d","g","e">>
    ELSE IF Contains(bt_pref, <<"s","u","s","p","e","n","s","i","o","n">>) THEN <<"S","u","s","p","e","n","s","i","o","n"," ","B","r","i","d","g","e">>
    ELSE <<"B","e","a","m"," ","B","r","i","d","g","e">>

PrestressedMentioned(bt_pref, specific_materials) ==
    \/ Contains(bt_pref, <<"p","r","e","s","t","r","e","s","s","e","d">>)
    \/ Contains(bt_pref, <<"p","s","c">>)
    \/ Contains(specific_materials, <<"p","r","e","s","t","r","e","s","s","e","d">>)

standardized_type(bt_pref, specific_materials) ==
    LET base == BaseType(bt_pref)
    IN  Strip(IF PrestressedMentioned(bt_pref, specific_materials)
              THEN IF Contains(bt_pref, <<"c","o","n","c","r","e","t","e">>) \/ Contains(specific_materials, <<"c","o","n","c","r","e","t","e">>)
                   THEN <<"P","r","e","s","t","r","e","s","s","e","d"," ","C","o","n","c","r","e","t","e"," ">> \o Replace(base, <<"B","e","a","m"," ","B","r","i","d","g","e">>, <<"G","i","r","d","e","r"," ","B","r","i","d","g","e">>)
                   ELSE <<"P","r","e","s","t","r","e","s","s","e","d"," ">> \o base
              ELSE base)

\* lines 86-91: estimated_span_meters after the span description was looked at
RefinedEstimatedSpan(p) ==
    LET span_desc == Lower(TextOf(p.span_length_description))
        match == SearchMetres(span_desc)
    IN  IF ~Truthy(p.estimated_span_meters) /\ span_desc # << >> /\ match # Null
        THEN ParseFloat(match.s)
        ELSE p.estimated_span_meters

\* lines 95-102
RawExtract(p) ==
    LET span_desc == Lower(TextOf(p.span_length_description))
    IN  IF ~Truthy(p.estimated_span_meters) /\ span_desc # << >>
           /\ SearchMetres(span_desc) = Null /\ SearchNumber(span_desc) # Null
        THEN ParseFloat(SearchNumber(span_desc).s)
        ELSE Absent

\* .lower() of None raises AttributeError (lines 58, 59, 86)
RefineRaises(p) ==
    \/ p.bridge_type_preference = Null
    \/ p.specific_materials = Null
    \/ p.span_length_description = Null

refine_parameters_with_knowledge(p) ==
    LET bt_pref == Lower(TextOf(p.bridge_type_preference))
        specific_materials == Lower(TextOf(p.specific_materials))
    IN  [raised |-> RefineRaises(p),
         bridge_type_preference |-> p.bridge_type_preference,
         specific_materials |-> p.specific_materials,
         span_length_description |-> p.span_length_description,
         road_lanes_description |-> p.road_lanes_description,
         assumed_bridge_width |-> p.assumed_bridge_width,
         load_requirements |-> p.load_requirements,
         standardized_bridge_type |-> Str(standardized_type(bt_pref, specific_materials)),
         material_is_prestressed_concrete |-> PrestressedMentioned(bt_pref, specific_materials),
         estimated_span_meters |-> RefinedEstimatedSpan(p),
         estimated_span_meters_raw_extract |-> RawExtract(p)]

(***************************************************************************)
(* BridgeService.generate_preliminary_design                               *)
(***************************************************************************)
default_span_length == Dec(50, 0)

default_bridge_width == Dec(12, 0)

lane_width_m == Dec(35, 1)

\* lines 138-140
bridge_type_suggestion(constraints, refined_params) ==
    IF Truthy(constraints.bridge_type_preference)
    THEN constraints.bridge_type_preference
    ELSE Get(refined_params.standardized_bridge_type, Str(<<"B","e","a","m"," ","B","r","i","d","g","e">>))

\* lines 144-150 with the first two branches exchanged
span_source_text_intent_first(constraints, refined_params) ==
    IF Truthy(refined_params.estimated_span_meters)
    THEN Str(NumStr(refined_params.estimated_span_meters))
    ELSE IF Truthy(constraints.span_preference_meters)
    THEN Str(NumStr(constraints.span_preference_meters))
    ELSE IF Truthy(refined_params.span_length_description)
    THEN refined_params.span_length_description
    ELSE Null

\* lines 144-150; None when no source is available
span_source_text(constraints, refined_params) ==
    IF Truthy(constraints.span_preference_meters)
    THEN Str(NumStr(constraints.span_preference_meters))
    ELSE IF Truthy(refined_params.estimated_span_meters)
    THEN Str(NumStr(refined_params.estimated_span_meters))
    ELSE IF Truthy(refined_params.span_length_description)
    THEN refined_params.span_length_description
    ELSE Null

\* line 157 with >= in place of >
SpanAcceptedNonNegative(parsed_span) == parsed_span.m >= 0

\* line 157
SpanAccepted(parsed_span) == parsed_span.m > 0

\* lines 143, 152-166
span_length(source) ==
    IF Truthy(source)
    THEN LET match == SearchNumber(source.s)
         IN  IF match # Null
             THEN LET parsed_span == ParseFloat(match.s)
                  IN  IF SpanAccepted(parsed_span) THEN parsed_span ELSE default_span_length
             ELSE default_span_length
    ELSE default_span_length

\* lines 173-177; None when no lane text is available
road_lanes_info(conditions, refined_params) ==
    IF Truthy(conditions.road_lanes)
    THEN Str(Lower(conditions.road_lanes.s))
    ELSE IF Truthy(refined_params.road_lanes_description)
    THEN Str(Lower(refined_params.road_lanes_description.s))
    ELSE Null

\* lines 172, 179-184
num_lanes(info) ==
    IF ~Truthy(info) THEN 0
    ELSE IF Contains(info.s, <<"U+56DB">>) \/ Contains(info.s, <<"4">>) \/ Contains(info.s, <<"f","o","u","r">>) THEN 4
    ELSE IF Contains(info.s, <<"U+516D">>) \/ Contains(info.s, <<"6">>) \/ Contains(info.s, <<"s","i","x">>) THEN 6
    ELSE IF Contains(info.s, <<"U+516B">>) \/ Contains(info.s, <<"8">>) \/ Contains(info.s, <<"e","i","g","h","t">>) THEN 8
    ELSE IF Contains(info.s, <<"U+53CC">>) \/ Contains(info.s, <<"U+4E24">>) \/ Contains(info.s, <<"2">>)
            \/ Contains(info.s, <<"t","w","o">>) THEN 2
    ELSE 0

\* line 189 with the wider shoulders starting above four lanes
shoulder_median_width_m_above_four(lanes) == IF lanes > 4 THEN Dec(30, 1) ELSE Dec(15, 1)

\* line 189
shoulder_median_width_m(lanes) == IF lanes >= 4 THEN Dec(30, 1) ELSE Dec(15, 1)

\* lines 171, 187-198; None when the intent carries "assumed_bridge_width": null
estimated_bridge_width(lanes, refined_params) ==
    IF lanes > 0
    THEN Add(Times(lanes, lane_width_m), shoulder_median_width_m(lanes))
    ELSE Get(refined_params.assumed_bridge_width, default_bridge_width)

\* line 228 with the other end of the L/18-L/20 range as divisor
depth_m_twentieth(span) == IF span.m > 0 THEN RoundedQuotient(span, 20) ELSE Dec(2, 0)

\* line 228
depth_m(span) == IF span.m > 0 THEN RoundedQuotient(span, 18) ELSE Dec(2, 0)

\* lines 203-218
SteelMentioned(bridge_type, refined_params) ==
    \/ Contains(Lower(bridge_type.s), <<"s","t","e","e","l">>)
    \/ Contains(Lower(TextOf(Get(refined_params.specific_materials, Str(<< >>)))), <<"s","t","e","e","l">>)

main_girder_type(bridge_type, refined_params) ==
    IF refined_params.material_is_prestressed_concrete
    THEN IF Contains(Lower(bridge_type.s), <<"c","o","n","t","i","n","u","o","u","s">>)
         THEN Str(<<"P","r","e","s","t","r","e","s","s","e","d"," ","C","o","n","c","r","e","t","e"," ","C","o","n","t","i","n","u","o","u","s"," ","G","i","r","d","e","r">>)
         ELSE Str(<<"P","r","e","s","t","r","e","s","s","e","d"," ","C","o","n","c","r","e","t","e"," ","I","-","G","i","r","d","e","r">>)
    ELSE IF SteelMentioned(bridge_type, refined_params) THEN Str(<<"S","t","e","e","l"," ","I","-","G","i","r","d","e","r">>)
    ELSE Str(<<"I","-","G","i","r","d","e","r">>)

materials_dict(bridge_type, refined_params) ==
    LET prestressed == refined_params.material_is_prestressed_concrete
        steel == ~prestressed /\ SteelMentioned(bridge_type, refined_params)
        deck == Contains(Lower(TextOf(Get(refined_params.specific_materials, Str(<< >>)))), <<"d","e","c","k">>)
    IN  [concrete_grade |-> IF steel /\ ~deck THEN Absent ELSE Str(<<"C","4","0","/","5","0">>),
         steel_reinforcement |-> Str(<<"F","e","5","0","0","D">>),
         prestressing_steel |-> IF prestressed THEN Str(<<"H","i","g","h","-","t","e","n","s","i","l","e"," ","s","t","r","a","n","d","s"," ","Y","1","8","6","0","S","7">>) ELSE Absent,
         structural_steel_grade |-> IF steel THEN Str(<<"Q","3","5","5">>) ELSE Absent,
         error |-> Absent]

\* lines 234-237, were the notes never added
NotesLeftOut(d) == Absent

\* the f-string notes of lines 234-237 keep the dict they print
Notes(d) == IF \E f \in DOMAIN d : d[f] # Absent THEN [k |-> "notes", of |-> d] ELSE Absent

\* lines 129-133 and 254-258
ErrorDesign(bridge_type, message) ==
    [bridge_type |-> Str(bridge_type),
     span_lengths |-> <<Dec(0, 0)>>,
     bridge_width |-> Dec(0, 0),
     design_load |-> Str(<<"N","/","A">>),
     main_girder |-> [type |-> Absent, depth_m |-> Absent, error |-> Str(message),
                      project_notes |-> Absent],
     pier_design |-> [type |-> Absent, shape |-> Absent, error |-> Str(message),
                      constraints_notes |-> Absent],
     foundation |-> [type |-> Absent, error |-> Str(message)],
     materials |-> [concrete_grade |-> Absent, steel_reinforcement |-> Absent,
                    prestressing_steel |-> Absent, structural_steel_grade |-> Absent,
                    error |-> Str(message)]]

\* BridgeDesign(...) raises a ValidationError for a bridge_width or design_load of None
DesignRaises(width, load) == width = Null \/ load = Null

\* lines 135-246, the design of an intent that carries no error
DesignFor(request, refined_params) ==
    LET bridge_type == bridge_type_suggestion(request.design_constraints, refined_params)
        span == span_length(span_source_text(request.design_constraints, refined_params))
        lanes == num_lanes(road_lanes_info(request.project_conditions, refined_params))
        width == estimated_bridge_width(lanes, refined_params)
        load == Get(refined_params.load_requirements, Str(<<"S","t","a","n","d","a","r","d"," ","H","i","g","h","w","a","y"," ","L","o","a","d">>))
    IN  IF refined_params.raised THEN ErrorDesign(<<"E","r","r","o","r"," ","-"," ","U","n","e","x","p","e","c","t","e","d"," ","F","a","i","l","u","r","e">>, <<"A","t","t","r","i","b","u","t","e","E","r","r","o","r">>)
        ELSE IF DesignRaises(width, load)
        THEN ErrorDesign(<<"E","r","r","o","r"," ","-"," ","U","n","e","x","p","e","c","t","e","d"," ","F","a","i","l","u","r","e">>, <<"V","a","l","i","d","a","t","i","o","n","E","r","r","o","r">>)
        ELSE [bridge_type |-> bridge_type,
              span_lengths |-> <<span>>,
              bridge_width |-> width,
              design_load |-> load,
              main_girder |-> [type |-> main_girder_type(bridge_type, refined_params),
                               depth_m |-> depth_m(span),
                               error |-> Absent,
                               project_notes |-> Notes(request.project_conditions)],
              pier_design |-> [type |-> Str(<<"R","e","i","n","f","o","r","c","e","d"," ","C","o","n","c","r","e","t","e"," ","C","o","l","u","m","n">>),
                               shape |-> Str(<<"C","i","r","c","u","l","a","r">>),
                               error |-> Absent,
                               constraints_notes |-> Notes(request.design_constraints)],
              foundation |-> [type |-> Str(<<"S","p","r","e","a","d"," ","F","o","o","t","i","n","g"," ","o","r"," ","P","i","l","e","s"," ","(","s","i","t","e"," ","d","e","p","e","n","d","e","n","t",")">>),
                              error |-> Absent],
              materials |-> materials_dict(bridge_type, refined_params)]

\* generate_preliminary_design without the test of line 122
generate_preliminary_design_unchecked(request, analyzed) ==
    DesignFor(request, refine_parameters_with_knowledge(analyzed.params))

\* lines 119-258 after the analysis has returned
generate_preliminary_design(request, analyzed) ==
    IF Truthy(analyzed.error)
    THEN ErrorDesign(<<"E","r","r","o","r"," ","-"," ","A","n","a","l","y","s","i","s"," ","F","a","i","l","e","d">>, <<"A","n","a","l","y","s","i","s"," ","f","a","i","l","e","d">>)
    ELSE DesignFor(request, refine_parameters_with_knowledge(analyzed.params))

\* the counter that lines 125, 242 and 250 increment for a design
OutcomeCounter(d) ==
    IF d.main_girder.error # Absent THEN "failed_designs" ELSE "successful_designs"

(***************************************************************************)
(* generate_design_api (app.py)                                            *)
(***************************************************************************)
\* line 59: the status answered for a design
StatusFor(d) ==
    IF Contains(Lower(d.bridge_type.s), <<"e","r","r","o","r">>) \/ d.main_girder.error # Absent
    THEN 500
    ELSE 200

\* lines 36-45: the body is rejected
BadRequest(b) == b = Null \/ ~Truthy(b.user_requirements)

(***************************************************************************)
(* Actions.  A request is served by a thread of its own (Flask), and       *)
(* `stats[key] += 1` is a load and a store between which another thread    *)
(* may run.                                                                *)
(***************************************************************************)
\* app.py 36-57, bridge_service.py 112 (load)
ApiReceive(t) ==
    /\ pc[t] = "recv"
    /\ IF BadRequest(body[t])
       THEN /\ response' = [response EXCEPT ![t] = 400]
            /\ pc' = [pc EXCEPT ![t] = "done"]
            /\ UNCHANGED reg
       ELSE /\ reg' = [reg EXCEPT ![t] = design_gen_stats.total_requests]
            /\ pc' = [pc EXCEPT ![t] = "store_total"]
            /\ UNCHANGED response
    /\ UNCHANGED <<body, llm_reply, analyzed_params, locals, design, design_gen_stats, llm_vars, gen_vars, fn_vars>>

\* bridge_service.py 112 (store)
StoreTotal(t) ==
    /\ pc[t] = "store_total"
    /\ design_gen_stats' = [design_gen_stats EXCEPT !.total_requests = reg[t] + 1]
    /\ pc' = [pc EXCEPT ![t] = "analyze"]
    /\ UNCHANGED <<body, llm_reply, analyzed_params, locals, design, response, reg, llm_vars, gen_vars, fn_vars>>

\* bridge_service.py 120: the awaited analysis returns
Analyze(t) ==
    /\ pc[t] = "analyze"
    /\ analyzed_params' = [analyzed_params EXCEPT ![t] = analyze_user_requirements(llm_reply[t])]
    /\ pc' = [pc EXCEPT ![t] = "generate"]
    /\ UNCHANGED <<body, llm_reply, locals, design, response, reg, design_gen_stats, llm_vars, gen_vars, fn_vars>>

\* bridge_service.py 122-241 and 248-249, then the load of line 125, 242 or 250
Generate(t) ==
    /\ pc[t] = "generate"
    /\ LET d == generate_preliminary_design(body[t], analyzed_params[t])
           refined == refine_parameters_with_knowledge(analyzed_params[t].params)
       IN  /\ design' = [design EXCEPT ![t] = d]
           /\ locals' = [locals EXCEPT ![t] =
                  IF Truthy(analyzed_params[t].error) \/ refined.raised THEN Null
                  ELSE [refined_params |-> refined,
                        span_source_text |-> span_source_text(body[t].design_constraints, refined),
                        num_lanes |-> num_lanes(road_lanes_info(body[t].project_conditions, refined))]]
           /\ reg' = [reg EXCEPT ![t] = design_gen_stats[OutcomeCounter(d)]]
    /\ pc' = [pc EXCEPT ![t] = "store_outcome"]
    /\ UNCHANGED <<body, llm_reply, analyzed_params, response, design_gen_stats, llm_vars, gen_vars, fn_vars>>

\* bridge_service.py 125, 242 or 250 (store), and the return
StoreOutcome(t) ==
    /\ pc[t] = "store_outcome"
    /\ design_gen_stats' = [design_gen_stats EXCEPT ![OutcomeCounter(design[t])] = reg[t] + 1]
    /\ pc' = [pc EXCEPT ![t] = "respond"]
    /\ UNCHANGED <<body, llm_reply, analyzed_params, locals, design, response, reg, llm_vars, gen_vars, fn_vars>>

\* app.py 59-68
ApiRespond(t) ==
    /\ pc[t] = "respond"
    /\ response' = [response EXCEPT ![t] = StatusFor(design[t])]
    /\ pc' = [pc EXCEPT ![t] = "done"]
    /\ UNCHANGED <<body, llm_reply, analyzed_params, locals, design, reg, design_gen_stats, llm_vars, gen_vars, fn_vars>>

Next ==
    \E t \in Threads :
        \/ ApiReceive(t)
        \/ StoreTotal(t)
        \/ Analyze(t)
        \/ Generate(t)
        \/ StoreOutcome(t)
        \/ ApiRespond(t)

(***************************************************************************)
(* LLMService (llm_service.py).  A provider's result is kept by its kind   *)
(* and by the call that produced it: "params" is a non-empty dict without  *)
(* a truthy "error", "error" a dict with one, "empty" a falsy value.       *)
(***************************************************************************)
max_retries == 2

MaxAnalyses == 2

\* the order in which analyze_text_with_failover calls the providers
ProviderOrder == <<"deepseek", "ollama", "qwen">>

\* the labels returned with a provider's result
ProviderName == [deepseek |-> "DeepSeek", ollama |-> "Ollama", qwen |-> "Qwen"]

Result(kind, from) == [kind |-> kind, from |-> from]

Unset == Result("unset", "nobody")

Pending == Result("pending", "nobody")

\* what one attempt of the retry loop can end in: parsed content of some kind ("not_dict" is a
\* truthy value without .get), a response without the expected field, or a caught exception
HttpOutcomes ==
    {"params", "error", "empty", "not_dict", "bad_structure", "json_error", "http_5xx",
     "http_429", "http_4xx", "timeout", "connect_error", "request_error", "unknown"}

\* the parsed content is returned
Returns(outcome) == outcome \in {"params", "error", "empty"}

\* a handler that did not break on a refused connection
RetryableOrConnectError(outcome) ==
    outcome \in {"http_5xx", "http_429", "timeout", "request_error", "connect_error"}

\* the exception handler ends without break
Retryable(outcome) == outcome \in {"http_5xx", "http_429", "timeout", "request_error"}

\* the loop of lines 108 and 178 would go round once more than range(max_retries + 1) does
MayRetryOnceMore(outcome, n) == Retryable(outcome) /\ n <= max_retries

\* after pass n of `for attempt in range(self.max_retries + 1)` another pass follows
MayRetry(outcome, n) == Retryable(outcome) /\ n < max_retries

\* `result and not result.get("error")`
IsUsable(result) == result.kind = "params"

\* the provider called after p gave no usable result, "none" after the last one
ProviderAfterSkippingOllama(p) == IF p = "deepseek" THEN "qwen" ELSE "none"

ProviderAfter(p) ==
    IF p = "deepseek" THEN "ollama" ELSE IF p = "ollama" THEN "qwen" ELSE "none"

\* _update_stats_on_return, were a falsy result counted neither way
UpdatedStatsOfAnswers(stats, p, result) ==
    IF IsUsable(result)
    THEN [stats EXCEPT ![p].success = @ + 1]
    ELSE IF result.kind = "empty"
    THEN stats
    ELSE [stats EXCEPT ![p].errors = @ + 1]

\* _update_stats_on_return
UpdatedStats(stats, p, result) ==
    IF IsUsable(result)
    THEN [stats EXCEPT ![p].success = @ + 1]
    ELSE [stats EXCEPT ![p].errors = @ + 1]

\* the log of calls once provider p is called
Called(p) == Append(calls, [provider |-> p, result |-> Pending])

\* provider p, the last one of log, has returned result: the rest of analyze_text_with_failover
Finish(p, result, log) ==
    /\ results' = [results EXCEPT ![p] = result]
    /\ calls' = [log EXCEPT ![Len(log)].result = result]
    /\ IF IsUsable(result)
       THEN /\ returned' = [result |-> result, provider |-> ProviderName[p]]
            /\ llm_pc' = "returned"
       ELSE IF ProviderAfter(p) = "none"
       THEN /\ returned' = [result |-> Result("error", "failover"), provider |-> "none"]
            /\ llm_pc' = "returned"
       ELSE /\ llm_pc' = "call_" \o ProviderAfter(p)
            /\ UNCHANGED returned

\* the prompt is built from the built-in template and DeepSeek is next
AnalyzeTextWithFailover ==
    /\ llm_pc \in {"idle", "returned"}
    /\ analyses < MaxAnalyses
    /\ analyses' = analyses + 1
    /\ llm_pc' = "call_deepseek"
    /\ results' = [deepseek |-> Unset, ollama |-> Unset, qwen |-> Unset]
    /\ calls' = << >>
    /\ returned' = [result |-> Unset, provider |-> "unset"]
    /\ UNCHANGED <<api_vars, gen_vars, fn_vars, llm_config, call_stats, attempt,
                   last_exception_info>>

\* _call_deepseek and _call_ollama up to the retry loop
CallProvider(p) ==
    /\ llm_pc = "call_" \o p
    /\ IF llm_config[p]
       THEN /\ call_stats' = [call_stats EXCEPT ![p].attempts = @ + 1]
            /\ attempt' = 0
            /\ last_exception_info' = "None"
            /\ calls' = Called(p)
            /\ llm_pc' = "http_" \o p
            /\ UNCHANGED <<results, returned>>
       ELSE /\ Finish(p, Result("error", p), Called(p))
            /\ UNCHANGED <<call_stats, attempt, last_exception_info>>
    /\ UNCHANGED <<api_vars, gen_vars, fn_vars, llm_config, analyses>>

\* one pass of the retry loop of _call_deepseek or _call_ollama, and what follows the loop
HttpAttempt(p) ==
    /\ llm_pc = "http_" \o p
    /\ \E outcome \in HttpOutcomes :
          IF Returns(outcome)
          THEN /\ call_stats' = UpdatedStats(call_stats, p, Result(outcome, p))
               /\ Finish(p, Result(outcome, p), calls)
               /\ UNCHANGED <<attempt, last_exception_info>>
          ELSE IF MayRetry(outcome, attempt)
          THEN /\ attempt' = attempt + 1
               /\ last_exception_info' = outcome
               /\ UNCHANGED <<call_stats, llm_pc, results, calls, returned>>
          ELSE /\ call_stats' = UpdatedStats(call_stats, p, Result("error", p))
               /\ last_exception_info' = outcome
               /\ Finish(p, Result("error", p), calls)
               /\ UNCHANGED attempt
    /\ UNCHANGED <<api_vars, gen_vars, fn_vars, llm_config, analyses>>

\* the error the commented lines 259-261 would simulate
simulated_qwen_error == Result("error", "qwen")

\* mock_response of _call_qwen: a dict of parameters without an "error" key
mock_response == Result("params", "qwen")

\* _call_qwen: the mock always answers with mock_response
CallQwen ==
    /\ llm_pc = "call_qwen"
    /\ call_stats' =
          UpdatedStats([call_stats EXCEPT !["qwen"].attempts = @ + 1], "qwen", mock_response)
    /\ Finish("qwen", mock_response, Called("qwen"))
    /\ UNCHANGED <<api_vars, gen_vars, fn_vars, llm_config, analyses, attempt,
                   last_exception_info>>

\* a step of the analysis that is running
AnalysisStep ==
    \/ \E p \in {"deepseek", "ollama"} : CallProvider(p)
    \/ \E p \in {"deepseek", "ollama"} : HttpAttempt(p)
    \/ CallQwen

NextLLM ==
    \/ AnalyzeTextWithFailover
    \/ \E p \in {"deepseek", "ollama"} : CallProvider(p)
    \/ \E p \in {"deepseek", "ollama"} : HttpAttempt(p)
    \/ CallQwen

\* LLMService.__init__
LLMServiceInit ==
    /\ call_stats =
          [p \in {"deepseek", "ollama", "qwen"} |-> [attempts |-> 0, success |-> 0, errors |-> 0]]
    /\ llm_pc = "idle"
    /\ attempt = 0
    /\ last_exception_info = "None"
    /\ results = [deepseek |-> Unset, ollama |-> Unset, qwen |-> Unset]
    /\ calls = << >>
    /\ returned = [result |-> Unset, provider |-> "unset"]
    /\ analyses = 0

\* config.py without environment: the DeepSeek key is the placeholder, Ollama has its base URL
DefaultConfig == [deepseek |-> FALSE, ollama |-> TRUE]

(***************************************************************************)
(* Fractions: the quotients the validator and the design rules compute     *)
(***************************************************************************)
RECURSIVE GCD(_, _)
GCD(a, b) == IF b = 0 THEN a ELSE GCD(b, a % b)

\* n / d in lowest terms, d > 0
Quot(n, d) ==
    LET g == GCD(Abs(n), d)
    IN  IF n = 0 THEN [k |-> "rat", n |-> 0, d |-> 1] ELSE [k |-> "rat", n |-> n \div g, d |-> d \div g]

Numer(v) == IF v.k = "rat" THEN v.n ELSE v.m

Denom(v) == IF v.k = "rat" THEN v.d ELSE Pow10(v.e)

\* a / b of two numbers, b > 0
Over(a, b) == Quot(Numer(a) * Denom(b), Denom(a) * Numer(b))

\* lo <= v, v <= hi for an int bound and a number
AtLeast(v, lo) == lo * Denom(v) <= Numer(v)

AtMost(v, hi) == Numer(v) <= hi * Denom(v)

\* f"{v:.2f}" of a number v >= 0 (no tie arises for the values used)
Fmt2(v) ==
    LET h == RoundDiv(100 * Numer(v), Denom(v))
    IN  IntStr(h \div 100) \o <<".">> \o FracStr(h % 100, 2)

(***************************************************************************)
(* knowledge/bridge_knowledge.py                                           *)
(***************************************************************************)
\* DESIGN_PARAMETER_RANGES["span_to_depth_ratio"]
span_to_depth_ratio ==
    [steel_beam |-> <<15, 25>>, concrete_beam |-> <<10, 20>>,
     prestressed_concrete_beam |-> <<18, 30>>, truss |-> <<8, 12>>]

NoRange == << >>

\* get_design_parameter_range("span_to_depth_ratio", sub_type); NoRange is the error dict
get_design_parameter_range(sub_type) ==
    IF sub_type \in DOMAIN span_to_depth_ratio THEN span_to_depth_ratio[sub_type] ELSE NoRange

(***************************************************************************)
(* BridgeDesignValidator.validate_span_to_depth_ratio                      *)
(***************************************************************************)
\* a key of the knowledge base as the text an f-string gives it
KeyText(key) ==
    CASE key = "steel_beam" -> <<"s","t","e","e","l","_","b","e","a","m">>
      [] key = "steel_truss" -> <<"s","t","e","e","l","_","t","r","u","s","s">>
      [] key = "concrete_beam" -> <<"c","o","n","c","r","e","t","e","_","b","e","a","m">>
      [] key = "concrete_arch" -> <<"c","o","n","c","r","e","t","e","_","a","r","c","h">>
      [] key = "prestressed_concrete_beam" -> <<"p","r","e","s","t","r","e","s","s","e","d","_","c","o","n","c","r","e","t","e","_","b","e","a","m">>
      [] key = "truss" -> <<"t","r","u","s","s">>

\* the type_key the nested if/elif chain leaves; "" stands for None
TypeKey(bridge_type_lower) ==
    LET has(w) == Contains(bridge_type_lower, w)
        girder == has(<<"b","e","a","m">>) \/ has(<<"g","i","r","d","e","r">>)
    IN  IF has(<<"p","r","e","s","t","r","e","s","s","e","d">>) /\ (has(<<"c","o","n","c","r","e","t","e">>) \/ has(<<"p","c">>))
          THEN IF girder THEN "prestressed_concrete_beam" ELSE ""
        ELSE IF has(<<"s","t","e","e","l">>)
          THEN IF girder THEN "steel_beam" ELSE IF has(<<"t","r","u","s","s">>) THEN "steel_truss" ELSE ""
        ELSE IF has(<<"c","o","n","c","r","e","t","e">>)
          THEN IF girder THEN "concrete_beam" ELSE IF has(<<"a","r","c","h">>) THEN "concrete_arch" ELSE ""
        ELSE IF has(<<"t","r","u","s","s">>) THEN "truss" ELSE ""

Checked(valid, message, type_key) == [valid |-> valid, message |-> message, type_key |-> type_key]

\* min_ratio <= ratio <= max_ratio, with the upper bound left out
WithinRangeExclusive(ratio, range) == AtLeast(ratio, range[1]) /\ ~AtLeast(ratio, range[2])

\* min_ratio <= ratio <= max_ratio
WithinRange(ratio, range) == AtLeast(ratio, range[1]) /\ AtMost(ratio, range[2])

validate_span_to_depth_ratio(span, depth, bridge_type) ==
    IF ~(Numer(span) > 0) \/ ~(Numer(depth) > 0)
    THEN Checked(FALSE, <<"S","p","a","n"," ","a","n","d"," ","d","e","p","t","h"," ","m","u","s","t"," ","b","e"," ","p","o","s","i","t","i","v","e"," ","v","a","l","u","e","s",".">>, "")
    ELSE
    LET ratio == Over(span, depth)
        type_key == TypeKey(Lower(bridge_type))
        ranges == get_design_parameter_range(type_key)
        RangeText == IntStr(ranges[1]) \o <<"-">> \o IntStr(ranges[2])
    IN  IF type_key = ""
        THEN Checked(TRUE, <<"S","p","a","n","-","t","o","-","d","e","p","t","h"," ","r","a","t","i","o"," ","c","h","e","c","k"," ","s","k","i","p","p","e","d",":"," ","N","o"," ","s","p","e","c","i","f","i","c"," ","r","a","n","g","e"," ","f","o","r"," ","b","r","i","d","g","e"," ","t","y","p","e"," ","'">>
                           \o bridge_type \o <<"'","."," ","R","a","t","i","o"," ","i","s"," ">> \o Fmt2(ratio) \o <<".">>, type_key)
        ELSE IF ranges = NoRange
        THEN Checked(TRUE, <<"S","p","a","n","-","t","o","-","d","e","p","t","h"," ","r","a","t","i","o"," ","c","h","e","c","k"," ","s","k","i","p","p","e","d",":"," ","C","o","u","l","d"," ","n","o","t"," ","f","i","n","d"," ","r","a","n","g","e"," ","f","o","r"," ","'">>
                           \o KeyText(type_key) \o <<"'","."," ","R","a","t","i","o"," ","i","s"," ">> \o Fmt2(ratio)
                           \o <<"."," ","D","e","t","a","i","l","s",":"," ","S","u","b","-","t","y","p","e"," ">> \o KeyText(type_key)
                           \o <<" ","n","o","t"," ","f","o","u","n","d"," ","f","o","r"," ","s","p","a","n","_","t","o","_","d","e","p","t","h","_","r","a","t","i","o">>, type_key)
        ELSE IF WithinRange(ratio, ranges)
        THEN Checked(TRUE, <<"S","p","a","n","-","t","o","-","d","e","p","t","h"," ","r","a","t","i","o"," ">> \o Fmt2(ratio) \o <<" ","i","s"," ","w","i","t","h","i","n"," ","t","h","e"," ","t","y","p","i","c","a","l"," ","r","a","n","g","e"," ","(">>
                           \o RangeText \o <<")"," ","f","o","r"," ">> \o KeyText(type_key) \o <<".">>, type_key)
        ELSE Checked(FALSE, <<"W","a","r","n","i","n","g",":"," ","S","p","a","n","-","t","o","-","d","e","p","t","h"," ","r","a","t","i","o"," ">> \o Fmt2(ratio)
                            \o <<" ","i","s"," ","o","u","t","s","i","d","e"," ","t","h","e"," ","t","y","p","i","c","a","l"," ","r","a","n","g","e"," ","(">> \o RangeText \o <<")"," ","f","o","r"," ">>
                            \o KeyText(type_key) \o <<".">>, type_key)

\* no direct call is under way
NoCall == call = Null /\ call_result = Null

\* a direct call validator.validate_span_to_depth_ratio(span, depth, bridge_type)
ValidateSpanToDepthRatio ==
    /\ call.k = "validate_span_to_depth_ratio"
    /\ call_result = Null
    /\ call_result' = validate_span_to_depth_ratio(call.span, call.depth, call.bridge_type)
    /\ UNCHANGED <<api_vars, llm_vars, gen_vars, call>>

(***************************************************************************)
(* BridgeDesignValidator.validate_material_compatibility                   *)
(***************************************************************************)
\* str(v) of a value
PyStr(v) ==
    CASE v.k = "str" -> v.s
      [] v.k = "num" -> NumStr(v)
      [] v.k = "null" -> <<"N","o","n","e">>

\* str(d.get(key, default)) for a default text
StrOr(v, default) == IF v = Absent THEN default ELSE PyStr(v)

\* " ".join(notes)
RECURSIVE JoinNotes(_)
JoinNotes(notes) ==
    IF notes = << >> THEN << >>
    ELSE IF Len(notes) = 1 THEN notes[1]
    ELSE notes[1] \o <<" ">> \o JoinNotes(Tail(notes))

\* s.isdigit()
AllDigits(s) == s # << >> /\ \A i \in 1..Len(s) : IsDigit(s[i])

NoMaterials ==
    [main_beams_material |-> Absent, main_beams |-> Absent, concrete_grade |-> Absent,
     prestressing_steel_type |-> Absent, prestressing_steel |-> Absent,
     reinforcement_steel_grade |-> Absent, deck_slab_material |-> Absent]

\* a or b for two texts
OrText(a, b) == IF a # << >> THEN a ELSE b

validate_material_compatibility(materials, bridge_type, span) ==
    LET bridge_type_lower == Lower(bridge_type)
        main_beam_material ==
            OrText(Lower(StrOr(materials.main_beams_material, << >>)),
                   OrText(Lower(StrOr(materials.main_beams, << >>)),
                          Lower(StrOr(materials.concrete_grade, << >>))))
        named == StrOr(materials.main_beams_material, <<"N","/","A">>)
        Suggests(what) ==
            <<"W","a","r","n","i","n","g",":"," ","B","r","i","d","g","e"," ","t","y","p","e"," ","'">> \o bridge_type \o <<"'"," ","s","u","g","g","e","s","t","s"," ">> \o what
            \o <<","," ","b","u","t"," ","m","a","i","n"," ","b","e","a","m"," ","m","a","t","e","r","i","a","l"," ","'">> \o named \o <<"'"," ","d","o","e","s"," ","n","o","t"," ","c","l","e","a","r","l","y"," ","s","t","a","t","e"," ","i","t",".">>
        prestressed == Contains(bridge_type_lower, <<"p","r","e","s","t","r","e","s","s","e","d">>) \/ Contains(bridge_type_lower, <<"p","s","c">>)
        prestressing_steel ==
            OrText(Lower(StrOr(materials.prestressing_steel_type, << >>)),
                   Lower(StrOr(materials.prestressing_steel, << >>)))
        n1 == IF prestressed
                 /\ ~(\/ Contains(main_beam_material, <<"p","r","e","s","t","r","e","s","s","e","d">>)
                      \/ Contains(main_beam_material, <<"p","s","c">>)
                      \/ Contains(main_beam_material, <<"U+9884","U+5E94","U+529B">>))
              THEN <<Suggests(<<"p","r","e","s","t","r","e","s","s","e","d"," ","c","o","n","c","r","e","t","e">>)>> ELSE << >>
        n2 == IF prestressed /\ prestressing_steel = << >>
              THEN <<<<"W","a","r","n","i","n","g",":"," ","P","r","e","s","t","r","e","s","s","e","d"," ","c","o","n","c","r","e","t","e"," ","b","r","i","d","g","e"," ","t","y","p","e"," ","s","p","e","c","i","f","i","e","d",","," ","b","u","t"," ","n","o"," ","p","r","e","s","t","r","e","s","s","i","n","g"," ","s","t","e","e","l"," ","t","y","p","e"," ","d","e","f","i","n","e","d"," ","i","n"," ","m","a","t","e","r","i","a","l","s",".">>>>
              ELSE << >>
        n3 == IF Contains(bridge_type_lower, <<"c","o","n","c","r","e","t","e">>)
                 /\ ~(\/ Contains(main_beam_material, <<"c","o","n","c","r","e","t","e">>)
                      \/ Contains(main_beam_material, <<"U+6DF7","U+51DD","U+571F">>)
                      \/ /\ main_beam_material # << >>
                         /\ Head(main_beam_material) = "c"
                         /\ AllDigits(Tail(main_beam_material)))
              THEN <<Suggests(<<"c","o","n","c","r","e","t","e">>)>> ELSE << >>
        n4 == IF Contains(bridge_type_lower, <<"s","t","e","e","l">>) /\ Contains(bridge_type_lower, <<"b","r","i","d","g","e">>)
                 /\ ~Contains(main_beam_material, <<"s","t","e","e","l">>)
              THEN <<Suggests(<<"s","t","e","e","l">>)>> ELSE << >>
        n5 == IF ~AtMost(span, 300) /\ bridge_type_lower = <<"c","o","n","c","r","e","t","e","_","b","e","a","m">> /\ ~prestressed
              THEN <<<<"W","a","r","n","i","n","g",":"," ","S","p","a","n"," ","o","f"," ">> \o NumStr(span)
                     \o <<"m"," ","i","s"," ","v","e","r","y"," ","l","a","r","g","e"," ","f","o","r"," ","a"," ","n","o","n","-","p","r","e","s","t","r","e","s","s","e","d"," ","c","o","n","c","r","e","t","e"," ","b","e","a","m"," ","b","r","i","d","g","e",".">>>>
              ELSE << >>
        notes == n1 \o n2 \o n3 \o n4 \o n5
    IN  IF notes = << >> THEN Checked(TRUE, <<"M","a","t","e","r","i","a","l"," ","c","o","m","p","a","t","i","b","i","l","i","t","y"," ","c","h","e","c","k","s"," ","p","a","s","s","e","d"," ","(","b","a","s","i","c",")",".">>, "")
        ELSE Checked(FALSE, JoinNotes(notes), "")

\* a direct call validator.validate_material_compatibility(materials, bridge_type, span)
ValidateMaterialCompatibility ==
    /\ call.k = "validate_material_compatibility"
    /\ call_result = Null
    /\ call_result' = validate_material_compatibility(call.materials, call.bridge_type, call.span)
    /\ UNCHANGED <<api_vars, llm_vars, gen_vars, call>>

(***************************************************************************)
(* BridgeDesignValidator.validate_seismic_requirements                     *)
(***************************************************************************)
UpperChar(c) ==
    IF \E k \in 1..26 : LowerLetters[k] = c
    THEN Upper[CHOOSE k \in 1..26 : LowerLetters[k] = c]
    ELSE c

\* str.upper()
ToUpper(s) == [i \in 1..Len(s) |-> UpperChar(s[i])]

NoSeismicParams ==
    [seismic_design_intensity |-> Absent, seismic_considerations_foundation |-> Absent,
     other_seismic_details |-> Absent, beam_to_pier_connection |-> Absent]

\* the terms that make a beam-to-pier connection a seismic mention
SeismicTerms == {<<"s","e","i","s","m","i","c">>, <<"U+6297","U+9707">>, <<"d","a","m","p","e","r">>, <<"i","s","o","l","a","t","i","o","n">>, <<"U+9650","U+4F4D">>}

\* int(''.join(filter(str.isdigit, s))), 0 when s has no digit
seismic_level(seismic_intensity_str) == DigitsVal(SelectSeq(seismic_intensity_str, IsDigit))

validate_seismic_requirements(design_params, design_materials, seismic_intensity_str) ==
    IF ~Truthy(seismic_intensity_str)
    THEN Checked(TRUE, <<"S","e","i","s","m","i","c"," ","r","e","q","u","i","r","e","m","e","n","t","s"," ","c","h","e","c","k"," ","s","k","i","p","p","e","d",":"," ","N","o"," ","s","e","i","s","m","i","c"," ","i","n","t","e","n","s","i","t","y"," ","l","e","v","e","l"," ","p","r","o","v","i","d","e","d",".">>, "")
    ELSE
    LET intensity == seismic_intensity_str.s
        level == seismic_level(intensity)
        Noted(v, before) ==
            IF v # Absent /\ Truthy(v) THEN <<before \o PyStr(v) \o <<"'",".">>>> ELSE << >>
        connection == design_params.beam_to_pier_connection
        n1 == Noted(design_params.seismic_design_intensity,
                    <<"S","e","i","s","m","i","c"," ","d","e","s","i","g","n"," ","i","n","t","e","n","s","i","t","y"," ","n","o","t","e","d"," ","i","n"," ","p","a","r","a","m","e","t","e","r","s",":"," ","'">>)
        n2 == Noted(design_params.seismic_considerations_foundation,
                    <<"S","e","i","s","m","i","c"," ","c","o","n","s","i","d","e","r","a","t","i","o","n","s"," ","i","n"," ","f","o","u","n","d","a","t","i","o","n",":"," ","'">>)
        n3 == Noted(design_params.other_seismic_details, <<"O","t","h","e","r"," ","s","e","i","s","m","i","c"," ","d","e","t","a","i","l","s"," ","i","n"," ","k","e","y"," ","n","o","d","e","s",":"," ","'">>)
        n4 == IF connection # Absent
                 /\ \E term \in SeismicTerms : Contains(Lower(PyStr(connection)), term)
              THEN <<<<"S","e","i","s","m","i","c"," ","c","o","n","s","i","d","e","r","a","t","i","o","n","s"," ","i","n"," ","b","e","a","m","-","t","o","-","p","i","e","r"," ","c","o","n","n","e","c","t","i","o","n",":"," ","'">>
                     \o PyStr(connection) \o <<"'",".">>>>
              ELSE << >>
        notes == n1 \o n2 \o n3 \o n4
        mentioned_seismic_design == notes # << >>
        reinforcement_grade == ToUpper(StrOr(design_materials.reinforcement_steel_grade, << >>))
        ductile == \E c \in {<<"D">>, <<"E">>, <<"S","D">>} : Contains(reinforcement_grade, c)
        grade_note ==
            IF ductile THEN << >>
            ELSE <<<<"N","o","t","e",":"," ","F","o","r"," ","s","e","i","s","m","i","c"," ","l","e","v","e","l"," ">> \o intensity
                   \o <<","," ","c","o","n","s","i","d","e","r"," ","u","s","i","n","g"," ","r","e","i","n","f","o","r","c","e","m","e","n","t"," ","s","t","e","e","l"," ","w","i","t","h"," ","e","n","h","a","n","c","e","d"," ","d","u","c","t","i","l","i","t","y"," ","(","e",".","g",".",","," ","G","r","a","d","e"," ","D"," ","o","r"," ","E",","," ","o","r"," ","S","D"," ","g","r","a","d","e","s",")","."," ","C","u","r","r","e","n","t",":"," ","'">>
                   \o reinforcement_grade \o <<"'",".">>>>
    IN  IF level >= 7
        THEN IF ~mentioned_seismic_design
             THEN Checked(FALSE, <<"W","a","r","n","i","n","g",":"," ","S","e","i","s","m","i","c"," ","i","n","t","e","n","s","i","t","y"," ","i","s"," ","h","i","g","h"," ","(">> \o intensity
                                 \o <<")",","," ","b","u","t"," ","n","o"," ","e","x","p","l","i","c","i","t"," ","s","e","i","s","m","i","c"," ","d","e","s","i","g","n"," ","p","a","r","a","m","e","t","e","r","s"," ","o","r"," ","d","e","t","a","i","l","s"," ","w","e","r","e"," ","f","o","u","n","d"," ","i","n"," ","t","h","e"," ","d","e","s","i","g","n"," ","o","u","t","p","u","t",".">>, "")
             ELSE Checked(TRUE, JoinNotes(notes \o grade_note
                                 \o <<<<"S","e","i","s","m","i","c"," ","d","e","s","i","g","n"," ","r","e","q","u","i","r","e","m","e","n","t","s"," ","f","o","r"," ","i","n","t","e","n","s","i","t","y"," ","'">> \o intensity
                                      \o <<"'"," ","a","p","p","e","a","r"," ","t","o"," ","b","e"," ","a","d","d","r","e","s","s","e","d"," ","a","t"," ","a"," ","h","i","g","h"," ","l","e","v","e","l",".">>>>), "")
        ELSE IF mentioned_seismic_design
        THEN Checked(TRUE, <<"S","e","i","s","m","i","c"," ","c","o","n","s","i","d","e","r","a","t","i","o","n","s"," ","m","e","n","t","i","o","n","e","d"," ","f","o","r"," ","i","n","t","e","n","s","i","t","y"," ","'">> \o intensity \o <<"'","."," ">>
                           \o JoinNotes(notes), "")
        ELSE Checked(TRUE, <<"B","a","s","i","c"," ","s","e","i","s","m","i","c"," ","c","h","e","c","k"," ","p","a","s","s","e","d"," ","f","o","r"," ","i","n","t","e","n","s","i","t","y"," ","'">> \o intensity
                           \o <<"'","."," ","N","o"," ","m","a","j","o","r"," ","r","e","d"," ","f","l","a","g","s"," ","f","o","u","n","d"," ","i","n"," ","h","i","g","h","-","l","e","v","e","l"," ","r","e","v","i","e","w",","," ","b","u","t"," ","d","e","t","a","i","l","e","d"," ","e","n","g","i","n","e","e","r","i","n","g"," ","v","e","r","i","f","i","c","a","t","i","o","n"," ","i","s"," ","e","s","s","e","n","t","i","a","l","."," ">>
                           \o JoinNotes(notes), "")

\* a direct call validator.validate_seismic_requirements(design_params, design_materials, intensity)
ValidateSeismicRequirements ==
    /\ call.k = "validate_seismic_requirements"
    /\ call_result = Null
    /\ call_result' = validate_seismic_requirements(call.design_params, call.design_materials,
                                               call.seismic_intensity_str)
    /\ UNCHANGED <<api_vars, llm_vars, gen_vars, call>>

(***************************************************************************)
(* knowledge/design_rules.py                                               *)
(***************************************************************************)
\* calculate_beam_height(span, beam_type); beam_type is "simple" when the caller gives none
calculate_beam_height(span, beam_type) ==
    CASE beam_type = "simple" -> Quot(7 * Numer(span), 96 * Denom(span))
      [] beam_type = "continuous" -> Quot(43 * Numer(span), 900 * Denom(span))
      [] OTHER -> Quot(Numer(span), 15 * Denom(span))

(***************************************************************************)
(* DesignGenerator (services/design_generator.py)                          *)
(***************************************************************************)
NoMainParams ==
    [main_span_m |-> Absent, beam_height_m |-> Absent, seismic_design_intensity |-> Absent,
     estimated_beam_height_from_rule_m |-> Absent]

NoFoundation == [type |-> Absent, seismic_considerations |-> Absent]

NoKeyNodes == [beam_to_pier_connection |-> Absent, other_seismic_details |-> Absent]

NoRequirements ==
    [project_conditions |-> Absent, environmental_factors |-> Absent,
     seismic_intensity |-> Absent, seismic_zone_description |-> Absent]

\* the sections of a scheme that are dicts
DictSections ==
    {"bridge_type_selection", "main_structural_parameters", "material_specifications",
     "foundation_form_and_size", "key_node_construction"}

\* "error" in str(val).lower() for a dict val: it has the key "error" or a text it holds says error
SaysError(val) ==
    /\ val # Absent
    /\ \/ "error" \in DOMAIN val
       \/ \E f \in DOMAIN val : val[f].k = "str" /\ Contains(Lower(val[f].s), <<"e","r","r","o","r">>)

\* the dict generate_design_scheme returns when the scheme is unusable or a step raised
ErrorScheme(reason, points, note) ==
    [bridge_type_selection |-> [type |-> Str(<<"E","r","r","o","r">>), reason |-> Str(reason)],
     main_structural_parameters |-> [error |-> Str(reason)],
     material_specifications |-> [error |-> Str(reason)],
     foundation_form_and_size |-> [error |-> Str(reason)],
     key_node_construction |-> [error |-> Str(reason)],
     construction_points |-> Str(points),
     design_notes |-> <<note>>]

LLMFailed ==
    ErrorScheme(<<"L","L","M"," ","s","e","r","v","i","c","e"," ","f","a","i","l","e","d">>, <<"L","L","M"," ","s","e","r","v","i","c","e"," ","f","a","i","l","e","d">>,
                <<"C","r","i","t","i","c","a","l"," ","e","r","r","o","r",":"," ","L","L","M"," ","s","e","r","v","i","c","e"," ","f","a","i","l","e","d"," ","t","o"," ","g","e","n","e","r","a","t","e"," ","d","e","s","i","g","n",".">>)

\* str(e) of the TypeError that None / 16 raises
NoneDivided == <<"u","n","s","u","p","p","o","r","t","e","d"," ","o","p","e","r","a","n","d"," ","t","y","p","e","(","s",")"," ","f","o","r"," ","/",":"," ","'","N","o","n","e","T","y","p","e","'"," ","a","n","d"," ","'","i","n","t","'">>

Raised(e) == ErrorScheme(e, <<"E","r","r","o","r"," ","i","n"," ","d","e","s","i","g","n"," ","g","e","n","e","r","a","t","i","o","n",".">>, <<"C","r","i","t","i","c","a","l"," ","e","r","r","o","r",":"," ">> \o e)

\* _perform_parameter_calculation
perform_parameter_calculation(llm_output) ==
    LET main == llm_output.main_structural_parameters
    IN  IF main.main_span_m = Absent THEN llm_output
        ELSE [llm_output EXCEPT !.main_structural_parameters.estimated_beam_height_from_rule_m =
                                    calculate_beam_height(main.main_span_m, "simple")]

\* \w of an ASCII character or of a CJK character
IsWord(c) ==
    c \notin {" ", "\t", "\n", ",", ".", ";", ":", "(", ")", "'", "-", "/", "!", "?", "=", "+"}

IsRoman(c) == LowerChar(c) \in {"i", "v", "x", "l", "c", "d", "m"}

\* the character classes \d, \s and [IVXLCDM] (case ignored) of the patterns
InClass(c, class) ==
    CASE class = "digit" -> IsDigit(c)
      [] class = "space" -> IsSpace(c)
      [] class = "roman" -> IsRoman(c)

\* the index after the longest run of characters of a class that starts at i
After(s, i, class) ==
    LET stops == {j \in i..Len(s) : ~InClass(s[j], class)}
    IN  IF stops = {} THEN Len(s) + 1 ELSE CHOOSE j \in stops : \A l \in stops : j <= l

\* where a match of word \s* P+ that starts at i ends, 0 if there is none; word is lower case
WordThenRun(s, i, word, P) ==
    LET j == i + Len(word)
        k == After(s, j, "space")
        l == After(s, k, P)
    IN  IF /\ j - 1 <= Len(s)
           /\ Lower(SubSeq(s, i, j - 1)) = word
           /\ (i = 1 \/ ~IsWord(s[i - 1]))
           /\ l > k
        THEN l - 1 ELSE 0

\* where a match of \d+\s*度 that starts at i ends, 0 if there is none
DegreesEnd(s, i) ==
    LET j == After(s, i, "digit")
        k == After(s, j, "space")
    IN  IF j > i /\ k <= Len(s) /\ <<s[k]>> = <<"U+5EA6">> THEN k ELSE 0

\* where the match of the pattern of _extract_seismic_intensity_from_requirements that starts
\* at i ends, 0 if there is none: the alternatives are tried in the order they are written
IntensityEnd(s, i) ==
    IF DegreesEnd(s, i) # 0 THEN DegreesEnd(s, i)
    ELSE IF WordThenRun(s, i, <<"i","n","t","e","n","s","i","t","y">>, "digit") # 0 THEN WordThenRun(s, i, <<"i","n","t","e","n","s","i","t","y">>, "digit")
    ELSE IF WordThenRun(s, i, <<"z","o","n","e">>, "roman") # 0 THEN WordThenRun(s, i, <<"z","o","n","e">>, "roman")
    ELSE WordThenRun(s, i, <<"s","e","i","s","m","i","c"," ","z","o","n","e">>, "digit")

\* match.group(1) of re.search over env_factors, Null if nothing matches
SearchIntensity(s) ==
    LET hits == {i \in 1..Len(s) : IntensityEnd(s, i) # 0}
        first == CHOOSE i \in hits : \A j \in hits : i <= j
    IN  IF hits = {} THEN Null ELSE Str(SubSeq(s, first, IntensityEnd(s, first)))

\* _extract_seismic_intensity_from_requirements
extract_seismic_intensity_from_requirements(reqs) ==
    LET pcs == reqs.project_conditions
        env_factors == reqs.environmental_factors
        found == SearchIntensity(env_factors.s)
    IN  IF pcs # Absent /\ pcs # Null /\ pcs.seismic_intensity # Absent /\ Truthy(pcs.seismic_intensity)
          THEN Str(PyStr(pcs.seismic_intensity))
        ELSE IF env_factors.k = "str" /\ found # Null THEN found
        ELSE IF env_factors.k = "str"
                /\ \E term \in {<<"s","e","i","s","m","i","c">>, <<"e","a","r","t","h","q","u","a","k","e">>, <<"U+6297","U+9707">>} : Contains(Lower(env_factors.s), term)
          THEN env_factors
        ELSE IF Truthy(reqs.seismic_intensity) THEN Str(PyStr(reqs.seismic_intensity))
        ELSE IF Truthy(reqs.seismic_zone_description) THEN Str(PyStr(reqs.seismic_zone_description))
        ELSE Null

\* a or b
Or(a, b) == IF a # Absent /\ Truthy(a) THEN a ELSE b

\* a dict is truthy when it has a key
NonEmpty(d) == \E f \in DOMAIN d : d[f] # Absent

\* the condition under which _verify_design counts a note as a passed check
CountsAsPassed(note) ==
    /\ \E good \in {<<"s","k","i","p","p","e","d">>, <<"p","a","s","s","e","d">>, <<"i","s"," ","w","i","t","h","i","n"," ","t","h","e"," ","t","y","p","i","c","a","l"," ","r","a","n","g","e">>, <<"s","e","e","m"," ","t","o"," ","b","e"," ","a","d","d","r","e","s","s","e","d">>,
                    <<"n","o"," ","s","p","e","c","i","f","i","c"," ","r","a","n","g","e">>} : Contains(Lower(note), good)
    /\ ~\E bad \in {<<"W","a","r","n","i","n","g",":">>, <<"o","u","t","s","i","d","e"," ","t","h","e"," ","t","y","p","i","c","a","l"," ","r","a","n","g","e">>, <<"d","o","e","s"," ","n","o","t"," ","c","l","e","a","r","l","y"," ","s","t","a","t","e">>,
                    <<"n","o"," ","p","r","e","s","t","r","e","s","s","i","n","g"," ","s","t","e","e","l"," ","t","y","p","e"," ","d","e","f","i","n","e","d">>} : Contains(note, bad)

\* the closing note _verify_design gives when some note does not count as passed
WithWarnings ==
    <<"D","e","s","i","g","n"," ","v","e","r","i","f","i","c","a","t","i","o","n"," ","c","o","m","p","l","e","t","e","d"," ","w","i","t","h"," ","w","a","r","n","i","n","g","s"," ","o","r"," ","n","o","n","-","c","r","i","t","i","c","a","l"," ","f","i","n","d","i","n","g","s","."," ","P","l","e","a","s","e"," ","r","e","v","i","e","w"," ","n","o","t","e","s",".">>

final_summary_note(notes) ==
    IF \A i \in 1..Len(notes) : CountsAsPassed(notes[i])
    THEN <<"D","e","s","i","g","n"," ","v","e","r","i","f","i","c","a","t","i","o","n"," ","c","o","m","p","l","e","t","e","d","."," ","A","l","l"," ","c","h","e","c","k","s"," ","p","a","s","s","e","d"," ","o","r"," ","w","e","r","e"," ","n","o","n","-","c","r","i","t","i","c","a","l",".">>
    ELSE WithWarnings

\* the type _verify_design reads from the scheme
bridge_type_of(design_scheme) ==
    IF design_scheme.bridge_type_selection = Absent
       \/ design_scheme.bridge_type_selection.type = Absent
    THEN <<"U","n","k","n","o","w","n">>
    ELSE design_scheme.bridge_type_selection.type.s

\* the depth _verify_design reads from the scheme
depth_of(main_params) == Or(main_params.beam_height_m, main_params.estimated_beam_height_from_rule_m)

\* no validator was called and no failure is logged: the note alone is appended
Skipped(message) == [valid |-> TRUE, message |-> message, type_key |-> ""]

\* the span-to-depth check of _verify_design, without its test of span and depth
span_to_depth_check_unguarded(design_scheme) ==
    LET main_params == design_scheme.main_structural_parameters
    IN  validate_span_to_depth_ratio(Get(main_params.main_span_m, Dec(0, 0)),
                                     Get(depth_of(main_params), Dec(0, 0)),
                                     bridge_type_of(design_scheme))

\* the span-to-depth check of _verify_design
span_to_depth_check(design_scheme) ==
    LET main_params == design_scheme.main_structural_parameters
        span == main_params.main_span_m
        depth == depth_of(main_params)
    IN  IF span # Absent /\ Truthy(span) /\ depth # Absent /\ Truthy(depth)
        THEN validate_span_to_depth_ratio(span, depth, bridge_type_of(design_scheme))
        ELSE Skipped(<<"S","p","a","n","-","t","o","-","d","e","p","t","h"," ","r","a","t","i","o"," ","c","h","e","c","k"," ","s","k","i","p","p","e","d",":"," ","S","p","a","n"," ","o","r"," ","d","e","p","t","h"," ","n","o","t"," ","a","v","a","i","l","a","b","l","e",".">>)

\* the material check of _verify_design
material_check(design_scheme) ==
    LET materials == design_scheme.material_specifications
        span == design_scheme.main_structural_parameters.main_span_m
    IN  IF NonEmpty(materials) /\ bridge_type_of(design_scheme) # <<"U","n","k","n","o","w","n">>
           /\ span # Absent /\ Truthy(span)
        THEN validate_material_compatibility(materials, bridge_type_of(design_scheme), span)
        ELSE Skipped(<<"M","a","t","e","r","i","a","l"," ","c","o","m","p","a","t","i","b","i","l","i","t","y"," ","c","h","e","c","k"," ","s","k","i","p","p","e","d",":"," ","I","n","s","u","f","f","i","c","i","e","n","t"," ","d","a","t","a",".">>)

\* the seismic check of _verify_design
seismic_check(design_scheme, original_requirements) ==
    LET main_params == design_scheme.main_structural_parameters
        key_nodes == design_scheme.key_node_construction
        effective_seismic_str ==
            Or(main_params.seismic_design_intensity,
               extract_seismic_intensity_from_requirements(original_requirements))
        temp_seismic_check_params ==
            [seismic_design_intensity |-> main_params.seismic_design_intensity,
             seismic_considerations_foundation |->
                 design_scheme.foundation_form_and_size.seismic_considerations,
             other_seismic_details |-> key_nodes.other_seismic_details,
             beam_to_pier_connection |-> key_nodes.beam_to_pier_connection]
    IN  validate_seismic_requirements(temp_seismic_check_params,
                                      design_scheme.material_specifications,
                                      effective_seismic_str)

\* the three checks of _verify_design, in the order it runs them
checks_of(design_scheme, original_requirements) ==
    <<span_to_depth_check(design_scheme), material_check(design_scheme),
      seismic_check(design_scheme, original_requirements)>>

\* the notes _verify_design returns for the outcomes of its checks, without the closing note
verify_design_three_notes(checks) == [i \in 1..Len(checks) |-> checks[i].message]

\* the notes _verify_design returns for the outcomes of its checks
verify_design(checks) ==
    LET notes == [i \in 1..Len(checks) |-> checks[i].message]
    IN  Append(notes, final_summary_note(notes))

\* the final_design of generate_design_scheme, were a failed verification to block it
final_design_blocking(scheme, notes) ==
    IF notes[Len(notes)] = WithWarnings
    THEN Raised(<<"D","e","s","i","g","n"," ","v","e","r","i","f","i","c","a","t","i","o","n"," ","f","a","i","l","e","d",".">>)
    ELSE [bridge_type_selection |->
              Get(scheme.bridge_type_selection, [type |-> Str(<<"U","n","k","n","o","w","n">>), reason |-> Str(<<"N","/","A">>)]),
          main_structural_parameters |-> scheme.main_structural_parameters,
          material_specifications |-> scheme.material_specifications,
          foundation_form_and_size |-> scheme.foundation_form_and_size,
          key_node_construction |-> scheme.key_node_construction,
          construction_points |-> Get(scheme.construction_points, Str(<<"N","/","A">>)),
          design_notes |-> notes]

\* the final_design of generate_design_scheme
final_design_of(scheme, notes) ==
    [bridge_type_selection |->
         Get(scheme.bridge_type_selection, [type |-> Str(<<"U","n","k","n","o","w","n">>), reason |-> Str(<<"N","/","A">>)]),
     main_structural_parameters |-> scheme.main_structural_parameters,
     material_specifications |-> scheme.material_specifications,
     foundation_form_and_size |-> scheme.foundation_form_and_size,
     key_node_construction |-> scheme.key_node_construction,
     construction_points |-> Get(scheme.construction_points, Str(<<"N","/","A">>)),
     design_notes |-> notes]

DesignGeneratorInit ==
    /\ gen_pc = "idle"
    /\ requirements = Null
    /\ llm_generated_scheme = Null
    /\ calculated_scheme = Null
    /\ verify_locals = Null
    /\ verification_notes = Null
    /\ final_design = Null

\* generate_design_scheme up to the return of _call_llm_service (lines 201-231)
CallLlmService ==
    /\ gen_pc = "call_llm"
    /\ IF \E section \in DictSections : SaysError(llm_generated_scheme[section])
       THEN gen_pc' = "done" /\ final_design' = LLMFailed
       ELSE gen_pc' = "calculate" /\ UNCHANGED final_design
    /\ UNCHANGED <<api_vars, llm_vars, fn_vars, requirements, llm_generated_scheme,
                   calculated_scheme, verify_locals, verification_notes>>

\* _perform_parameter_calculation (line 233); None / 16 raises
PerformParameterCalculation ==
    /\ gen_pc = "calculate"
    /\ IF llm_generated_scheme.main_structural_parameters.main_span_m = Null
       THEN /\ gen_pc' = "done"
            /\ final_design' = Raised(NoneDivided)
            /\ UNCHANGED calculated_scheme
       ELSE /\ gen_pc' = "verify"
            /\ calculated_scheme' = perform_parameter_calculation(llm_generated_scheme)
            /\ UNCHANGED final_design
    /\ UNCHANGED <<api_vars, llm_vars, fn_vars, requirements, llm_generated_scheme,
                   verify_locals, verification_notes>>

\* _verify_design (line 234)
VerifyDesign ==
    /\ gen_pc = "verify"
    /\ gen_pc' = "assemble"
    /\ verify_locals' = checks_of(calculated_scheme, requirements)
    /\ verification_notes' = verify_design(verify_locals')
    /\ UNCHANGED <<api_vars, llm_vars, fn_vars, requirements, llm_generated_scheme,
                   calculated_scheme, final_design>>

\* lines 236-246
ReturnDesign ==
    /\ gen_pc = "assemble"
    /\ gen_pc' = "done"
    /\ final_design' = final_design_of(calculated_scheme, verification_notes)
    /\ UNCHANGED <<api_vars, llm_vars, fn_vars, requirements, llm_generated_scheme,
                   calculated_scheme, verify_locals, verification_notes>>

NextGenerator == CallLlmService \/ PerformParameterCalculation \/ VerifyDesign \/ ReturnDesign

NextValidator ==
    ValidateSpanToDepthRatio \/ ValidateMaterialCompatibility \/ ValidateSeismicRequirements

(***************************************************************************)
(* BridgeGeometryBuilder (models/geometry_builder.py)                      *)
(***************************************************************************)
BoxGeometry(x, y, z) == [type |-> "BoxGeometry", args |-> <<x, y, z>>]

CylinderGeometry(radius, height) ==
    [type |-> "CylinderGeometry", args |-> <<radius, radius, height, Dec(32, 0)>>]

\* a - b
Minus(a, b) == Add(a, Times(-1, b))

\* the test that leaves a girder without inner box, were a zero dimension let through
inner_is_solid_below_zero(inner_width, inner_height) == inner_width.m < 0 \/ inner_height.m < 0

\* inner_width <= 0 or inner_height <= 0
inner_is_solid(inner_width, inner_height) == inner_width.m <= 0 \/ inner_height.m <= 0

create_box_girder(length, width, height, wall_thickness) ==
    LET inner_width == Minus(width, Times(2, wall_thickness))
        inner_height == Minus(height, Times(2, wall_thickness))
    IN  [name |-> "boxGirder",
         outer |-> BoxGeometry(width, height, length),
         inner |-> IF inner_is_solid(inner_width, inner_height) THEN Null
                   ELSE BoxGeometry(inner_width, inner_height, length),
         length |-> length, width |-> width, height |-> height,
         wall_thickness |-> wall_thickness]

\* the else branch of create_pier, were it to keep quiet about the type
unsupported_pier_silent(pier_type, height) ==
    [name |-> "pier", pier_type |-> pier_type, height |-> height,
     shape |-> BoxGeometry(Dec(1, 0), height, Dec(1, 0))]

\* the else branch of create_pier
unsupported_pier(pier_type, height) ==
    [name |-> "pier", pier_type |-> pier_type, height |-> height,
     shape |-> BoxGeometry(Dec(1, 0), height, Dec(1, 0)),
     error |-> <<"U","n","s","u","p","p","o","r","t","e","d"," ","p","i","e","r"," ","t","y","p","e",":"," ">> \o pier_type \o <<"."," ","U","s","i","n","g"," ","d","e","f","a","u","l","t"," ","b","o","x",".">>]

create_pier(pier_type, height, cross_section) ==
    IF pier_type = <<"c","y","l","i","n","d","r","i","c","a","l">>
    THEN LET radius == Get(cross_section.radius, Dec(1, 0))
         IN  [name |-> "pier", pier_type |-> pier_type, height |-> height,
              shape |-> CylinderGeometry(radius, height), radius |-> radius]
    ELSE IF pier_type = <<"r","e","c","t","a","n","g","u","l","a","r">>
    THEN LET width == Get(cross_section.width, Dec(1, 0))
             depth == Get(cross_section.depth, Dec(1, 0))
         IN  [name |-> "pier", pier_type |-> pier_type, height |-> height,
              shape |-> BoxGeometry(width, height, depth), width |-> width, depth |-> depth]
    ELSE unsupported_pier(pier_type, height)

create_foundation(foundation_type, dimensions) ==
    LET Box(length, height, width) ==
            BoxGeometry(Get(dimensions.length, length), Get(dimensions.height, height),
                        Get(dimensions.width, width))
    IN  IF foundation_type = <<"p","i","l","e","_","c","a","p">>
        THEN [name |-> "foundation", foundation_type |-> foundation_type,
              cap |-> Box(Dec(5, 0), Dec(15, 1), Dec(5, 0)), dimensions |-> dimensions]
        ELSE IF foundation_type = <<"s","p","r","e","a","d","_","f","o","o","t","i","n","g">>
        THEN [name |-> "foundation", foundation_type |-> foundation_type,
              footing |-> Box(Dec(6, 0), Dec(1, 0), Dec(6, 0)), dimensions |-> dimensions]
        ELSE [name |-> "foundation", foundation_type |-> foundation_type,
              shape |-> Box(Dec(3, 0), Dec(1, 0), Dec(3, 0)),
              error |-> <<"U","n","s","u","p","p","o","r","t","e","d"," ","f","o","u","n","d","a","t","i","o","n"," ","t","y","p","e",":"," ">> \o foundation_type
                        \o <<"."," ","U","s","i","n","g"," ","d","e","f","a","u","l","t"," ","b","o","x",".">>]

\* a direct call builder.create_box_girder(length, width, height, wall_thickness)
CreateBoxGirder ==
    /\ call.k = "create_box_girder"
    /\ call_result = Null
    /\ call_result' = create_box_girder(call.length, call.width, call.height, call.wall_thickness)
    /\ UNCHANGED <<api_vars, llm_vars, gen_vars, call>>

\* a direct call builder.create_pier(pier_type, height, cross_section)
CreatePier ==
    /\ call.k = "create_pier"
    /\ call_result = Null
    /\ call_result' = create_pier(call.pier_type, call.height, call.cross_section)
    /\ UNCHANGED <<api_vars, llm_vars, gen_vars, call>>

\* a direct call builder.create_foundation(foundation_type, dimensions)
CreateFoundation ==
    /\ call.k = "create_foundation"
    /\ call_result = Null
    /\ call_result' = create_foundation(call.foundation_type, call.dimensions)
    /\ UNCHANGED <<api_vars, llm_vars, gen_vars, call>>

NextGeometry == CreateBoxGirder \/ CreatePier \/ CreateFoundation

(***************************************************************************)
(* BridgeGeometryBuilder.create_t_girder                                   *)
(***************************************************************************)
\* a / 2
Half(a) == Dec(5 * a.m, a.e + 1)

Origin == <<Dec(0, 0), Dec(0, 0), Dec(0, 0)>>

\* a list value
List(items) == [k |-> "list", items |-> items]

create_t_girder(length, flange_width, web_height, thickness) ==
    LET flange_thickness == Get(thickness.flange, Dec(1, 1))
        web_thickness == Get(thickness.web, Dec(1, 1))
    IN  [name |-> "tGirder",
         flange |-> [type |-> "BoxGeometry", args |-> <<flange_width, flange_thickness, length>>,
                     position |-> <<Dec(0, 0), Add(Half(web_height), Half(flange_thickness)),
                                    Dec(0, 0)>>],
         web |-> [type |-> "BoxGeometry", args |-> <<web_thickness, web_height, length>>,
                  position |-> Origin],
         length |-> length, flange_width |-> flange_width, web_height |-> web_height,
         flange_thickness |-> flange_thickness, web_thickness |-> web_thickness]

(***************************************************************************)
(* Model3DService._parse_llm_response_to_structured_data                   *)
(***************************************************************************)
NoDimensions ==
    [length |-> Absent, width |-> Absent, height |-> Absent, wall_thickness |-> Absent,
     radius |-> Absent, depth |-> Absent, flange_width |-> Absent, web_height |-> Absent,
     thickness |-> Absent]

\* d.get(key), which is None for a missing key
GetOrNone(v) == IF v = Absent THEN Null ELSE v

Component(desc, default_name, geom_params) ==
    [name |-> Get(desc.name, Str(default_name)).s, geometry_params |-> geom_params,
     material_params |-> GetOrNone(desc.material), position |-> GetOrNone(desc.position)]

\* the components appended for one girder description: none for a type that is no girder
GirderComponents(desc) ==
    LET dims == desc.dimensions
    IN  IF desc.type = Str(<<"b","o","x">>)
        THEN <<Component(desc, <<"g","i","r","d","e","r">>,
                         create_box_girder(Get(dims.length, Dec(50, 0)), Get(dims.width, Dec(5, 0)),
                                           Get(dims.height, Dec(3, 0)),
                                           Get(dims.wall_thickness, Dec(3, 1))))>>
        ELSE IF desc.type = Str(<<"t","_","g","i","r","d","e","r">>)
        THEN <<Component(desc, <<"g","i","r","d","e","r">>,
                         create_t_girder(Get(dims.length, Dec(30, 0)),
                                         Get(dims.flange_width, Dec(3, 0)),
                                         Get(dims.web_height, Dec(2, 0)),
                                         Get(dims.thickness,
                                             [flange |-> Dec(4, 1), web |-> Dec(25, 2)])))>>
        ELSE << >>

PierComponents(desc) ==
    <<Component(desc, <<"p","i","e","r">>,
                create_pier(Get(desc.type, Str(<<"c","y","l","i","n","d","r","i","c","a","l">>)).s,
                            Get(desc.dimensions.height, Dec(10, 0)), desc.dimensions))>>

FoundationComponents(desc) ==
    <<Component(desc, <<"f","o","u","n","d","a","t","i","o","n">>,
                create_foundation(Get(desc.type, Str(<<"p","i","l","e","_","c","a","p">>)).s, desc.dimensions))>>

\* the concatenation of the lists that the items of a list gave
RECURSIVE Flatten(_)
Flatten(lists) == IF lists = << >> THEN << >> ELSE Head(lists) \o Flatten(Tail(lists))

\* Null stands for a response that is no JSON
parse_llm_response_to_structured_data(parsed_data) ==
    IF parsed_data = Null
    THEN [error |-> <<"F","a","i","l","e","d"," ","t","o"," ","p","a","r","s","e"," ","L","L","M"," ","r","e","s","p","o","n","s","e">>]
    ELSE LET girders == parsed_data.girders
             piers == parsed_data.piers
             foundations == parsed_data.foundations
         IN  [scene_setup |-> parsed_data.scene_setup,
              girders |-> Flatten([i \in 1..Len(girders) |-> GirderComponents(girders[i])]),
              piers |-> Flatten([i \in 1..Len(piers) |-> PierComponents(piers[i])]),
              foundations |->
                  Flatten([i \in 1..Len(foundations) |-> FoundationComponents(foundations[i])])]

(***************************************************************************)
(* ThreeJSGenerator.generate_bridge_scene: the scene its code sets up      *)
(***************************************************************************)
\* generate_mesh_code: the position is set when one is given
Mesh(name, geometry, material, position) ==
    [name |-> name, type |-> geometry.type, args |-> geometry.args, material |-> material,
     position |-> position]

\* the material variable a component's mesh is made with
MaterialOf(comp, default) == IF comp.material_params = Null THEN default ELSE comp.name \o <<"M","a","t">>

Plus(p, q) == <<Add(p[1], q[1]), Add(p[2], q[2]), Add(p[3], q[3])>>

\* a T girder reads main_pos[0] of its position, which raises when the position is None
GirderRaises(comp) == comp.geometry_params.name = "tGirder" /\ comp.position = Null

GirderMeshes(comp) ==
    LET geom_data == comp.geometry_params
        mat_var == MaterialOf(comp, <<"g","i","r","d","e","r","M","a","t","e","r","i","a","l">>)
    IN  IF geom_data.name = "boxGirder"
        THEN <<Mesh(comp.name, geom_data.outer, mat_var, comp.position)>>
        ELSE IF geom_data.name = "tGirder"
        THEN <<Mesh(comp.name \o <<"F","l","a","n","g","e","M","e","s","h">>, geom_data.flange, mat_var,
                    List(Plus(comp.position.items, geom_data.flange.position))),
               Mesh(comp.name \o <<"W","e","b","M","e","s","h">>, geom_data.web, mat_var,
                    List(Plus(comp.position.items, geom_data.web.position)))>>
        ELSE <<Mesh(comp.name, geom_data, mat_var, comp.position)>>

PierMeshes(comp) ==
    IF "shape" \in DOMAIN comp.geometry_params
    THEN <<Mesh(comp.name, comp.geometry_params.shape, MaterialOf(comp, <<"p","i","e","r","M","a","t","e","r","i","a","l">>),
                comp.position)>>
    ELSE << >>

FoundationMeshes(comp) ==
    LET geom_data == comp.geometry_params
        primary == IF "cap" \in DOMAIN geom_data THEN <<geom_data.cap>>
                   ELSE IF "footing" \in DOMAIN geom_data THEN <<geom_data.footing>>
                   ELSE IF "shape" \in DOMAIN geom_data THEN <<geom_data.shape>>
                   ELSE << >>
    IN  IF primary = << >> THEN << >>
        ELSE <<Mesh(comp.name, primary[1], MaterialOf(comp, <<"f","o","u","n","d","a","t","i","o","n","M","a","t","e","r","i","a","l">>),
                    comp.position)>>

\* camera.position.set(...) of the generated code
camera_position(scene_setup) ==
    Get(scene_setup.camera_position, List(<<Dec(0, 0), Dec(20, 0), Dec(50, 0)>>)).items

generate_bridge_scene(bridge_data) ==
    IF \E i \in 1..Len(bridge_data.girders) : GirderRaises(bridge_data.girders[i])
    THEN [k |-> "raised", error |-> <<"'","N","o","n","e","T","y","p","e","'"," ","o","b","j","e","c","t"," ","i","s"," ","n","o","t"," ","s","u","b","s","c","r","i","p","t","a","b","l","e">>]
    ELSE LET girders == bridge_data.girders
             piers == bridge_data.piers
             foundations == bridge_data.foundations
         IN  [k |-> "scene",
              camera_position |-> camera_position(bridge_data.scene_setup),
              camera_look_at |-> Origin,
              meshes |-> Flatten([i \in 1..Len(girders) |-> GirderMeshes(girders[i])])
                         \o Flatten([i \in 1..Len(piers) |-> PierMeshes(piers[i])])
                         \o Flatten([i \in 1..Len(foundations) |-> FoundationMeshes(foundations[i])])]

\* a direct call service._parse_llm_response_to_structured_data(llm_response_str)
ParseLlmResponse ==
    /\ call.k = "_parse_llm_response_to_structured_data"
    /\ call_result = Null
    /\ call_result' = parse_llm_response_to_structured_data(call.parsed_data)
    /\ UNCHANGED <<api_vars, llm_vars, gen_vars, call>>

\* a direct call generator.generate_bridge_scene(bridge_data)
GenerateBridgeScene ==
    /\ call.k = "generate_bridge_scene"
    /\ call_result = Null
    /\ call_result' = generate_bridge_scene(call.bridge_data)
    /\ UNCHANGED <<api_vars, llm_vars, gen_vars, call>>

NextScene == ParseLlmResponse \/ GenerateBridgeScene

(***************************************************************************)
(* SVGGenerator (generators/svg_generator.py): the texts a drawing shows   *)
(***************************************************************************)
\* d.get(key, default) of a dict whose keys are the fields of the record d
GetKey(d, key, default) ==
    IF key \notin DOMAIN d THEN default
    ELSE IF key # "span_lengths" /\ d[key] = Absent THEN default
    ELSE d[key]

Raises(error) == [k |-> "raised", error |-> error]

\* generate_bridge_elevation, lines 9-11, 50, 76 and 91
generate_bridge_elevation(design_data) ==
    LET span_lengths == GetKey(design_data, "span_lengths", <<Dec(50, 0)>>)
        main_girder == GetKey(design_data, "main_girder", [type |-> Absent])
        bridge_type_text == GetKey(design_data, "bridge_type", Str(<<"B","r","i","d","g","e">>))
    IN  IF span_lengths = << >> THEN Raises("IndexError")
        ELSE IF main_girder = Null THEN Raises("AttributeError")
        ELSE [k |-> "svg",
              title |-> <<"B","r","i","d","g","e"," ","E","l","e","v","a","t","i","o","n",":"," ">> \o PyStr(bridge_type_text),
              span_text |-> <<"S","p","a","n",":"," ">> \o Fmt2(span_lengths[1]) \o <<" ","m">>,
              depth_text |-> <<"D","e","p","t","h",":"," ">> \o Fmt2(GetKey(main_girder, "depth_m", Dec(2, 0)))
                             \o <<" ","m">>]

\* a < b
Below(a, b) == a.m * Pow10(b.e) < b.m * Pow10(a.e)

\* lines 110-112
girder_flange_width(girder_type, bridge_width) ==
    LET i_girder == Contains(girder_type, <<"I","-","G","i","r","d","e","r">>)
        width == IF i_girder THEN Half(Half(bridge_width)) ELSE Half(bridge_width)
    IN  IF Below(width, Dec(5, 1)) THEN Dec(5, 1)
        ELSE IF i_girder /\ Below(Dec(3, 0), width) THEN Dec(3, 0)
        ELSE width

\* generate_girder_section, lines 103-105, 137, 156 and 159
generate_girder_section(design_data) ==
    LET main_girder == GetKey(design_data, "main_girder", [type |-> Absent])
        girder_type == PyStr(GetKey(main_girder, "type", Str(<<"G","e","n","e","r","i","c"," ","G","i","r","d","e","r">>)))
        girder_depth == GetKey(main_girder, "depth_m", Dec(2, 0))
        bridge_width == GetKey(design_data, "bridge_width", Dec(10, 0))
    IN  IF main_girder = Null THEN Raises("AttributeError")
        ELSE [k |-> "svg",
              title |-> <<"G","i","r","d","e","r"," ","S","e","c","t","i","o","n",":"," ">> \o girder_type,
              depth_text |-> Fmt2(girder_depth) \o <<"m">>,
              width_text |-> Fmt2(girder_flange_width(girder_type, bridge_width)) \o <<"m">>]

(***************************************************************************)
(* DrawingService.generate_drawings (services/drawing_service.py)          *)
(***************************************************************************)
\* what one turn of the loop of lines 49-104 stores in drawings[drawing_type], or raises;
\* SVGGenerator defines no generate_pier_drawing
DrawingFor(bridge_design, drawing_type) ==
    IF drawing_type = <<"b","r","i","d","g","e","_","e","l","e","v","a","t","i","o","n","_","v","i","e","w">>
    THEN generate_bridge_elevation(GetKey(bridge_design, "elevation_data",
                                          [name |-> Str(<<"G","e","n","e","r","i","c"," ","B","r","i","d","g","e">>)]))
    ELSE IF drawing_type = <<"g","i","r","d","e","r","_","s","e","c","t","i","o","n","_","v","i","e","w">>
    THEN generate_girder_section(GetKey(bridge_design, "girder_data",
                                        [type |-> Str(<<"T","y","p","i","c","a","l"," ","G","i","r","d","e","r">>)]))
    ELSE IF drawing_type = <<"p","i","e","r","_","s","e","c","t","i","o","n","_","v","i","e","w">>
    THEN Raises("AttributeError")
    ELSE [k |-> "svg", title |-> <<"P","l","a","c","e","h","o","l","d","e","r"," ","f","o","r"," ">> \o drawing_type]

generate_drawings(bridge_design, drawing_types) ==
    LET raising == {i \in 1..Len(drawing_types) :
                        DrawingFor(bridge_design, drawing_types[i]).k = "raised"}
    IN  IF raising # {}
        THEN DrawingFor(bridge_design,
                        drawing_types[CHOOSE i \in raising : \A j \in raising : i <= j])
        ELSE [k |-> "drawings",
              svgs |-> [t \in {drawing_types[i] : i \in 1..Len(drawing_types)} |->
                            DrawingFor(bridge_design, t)]]

(***************************************************************************)
(* The drawing endpoints                                                   *)
(***************************************************************************)
\* the svgs of the keys among those listed, in the order listed
RECURSIVE Listed(_, _)
Listed(generated_svgs, keys) ==
    IF keys = << >> THEN << >>
    ELSE (IF Head(keys) \in DOMAIN generated_svgs THEN <<generated_svgs[Head(keys)]>> ELSE << >>)
         \o Listed(generated_svgs, Tail(keys))

\* main.py, the endpoint generate_drawings, lines 119-169
generate_drawings_api(bridge_design, drawing_types) ==
    LET generated == generate_drawings(bridge_design, drawing_types)
        generated_svgs == generated.svgs
        Mapped(key) == IF key \in DOMAIN generated_svgs THEN generated_svgs[key] ELSE Null
    IN  IF generated.k = "raised" THEN generated
        ELSE [k |-> "response",
              elevation_view |-> Mapped(<<"b","r","i","d","g","e","_","e","l","e","v","a","t","i","o","n","_","v","i","e","w">>),
              plan_view |-> Mapped(<<"p","l","a","n","_","v","i","e","w">>),
              section_views |-> Listed(generated_svgs, <<<<"g","i","r","d","e","r","_","s","e","c","t","i","o","n","_","v","i","e","w">>,
                                                         <<"p","i","e","r","_","s","e","c","t","i","o","n","_","v","i","e","w">>,
                                                         <<"m","a","i","n","_","b","e","a","m","_","s","e","c","t","i","o","n","_","v","i","e","w">>>>),
              detail_drawings |-> Listed(generated_svgs, <<<<"t","y","p","i","c","a","l","_","n","o","d","e","_","d","e","t","a","i","l">>,
                                                           <<"f","o","u","n","d","a","t","i","o","n","_","r","e","i","n","f","o","r","c","e","m","e","n","t","_","d","e","t","a","i","l">>>>)]

\* app.py, generate_2d_drawing_api, lines 79-110; data is Null for a body without design_data
generate_2d_drawing_api(data) ==
    IF data = Null THEN [k |-> "response", status |-> 400, svg_content |-> Null]
    ELSE LET svg_content == generate_bridge_elevation(data.design_data)
         IN  IF svg_content.k = "raised"
             THEN [k |-> "response", status |-> 500, svg_content |-> Null]
             ELSE [k |-> "response", status |-> 200, svg_content |-> svg_content]

\* a direct call drawing_service.generate_drawings(bridge_design, drawing_types)
GenerateDrawings ==
    /\ call.k = "generate_drawings"
    /\ call_result = Null
    /\ call_result' = generate_drawings(call.bridge_design, call.drawing_types)
    /\ UNCHANGED <<api_vars, llm_vars, gen_vars, call>>

\* a request POST /api/generate_drawings
GenerateDrawingsApi ==
    /\ call.k = "generate_drawings_api"
    /\ call_result = Null
    /\ call_result' = generate_drawings_api(call.design, call.drawing_types)
    /\ UNCHANGED <<api_vars, llm_vars, gen_vars, call>>

\* a request POST /api/v1/generate_2d_drawing
Generate2dDrawingApi ==
    /\ call.k = "generate_2d_drawing_api"
    /\ call_result = Null
    /\ call_result' = generate_2d_drawing_api(call.data)
    /\ UNCHANGED <<api_vars, llm_vars, gen_vars, call>>

NextDrawing == GenerateDrawings \/ GenerateDrawingsApi \/ Generate2dDrawingApi

(***************************************************************************)
(* Direct calls of BridgeService.refine_parameters_with_knowledge          *)
(***************************************************************************)
\* a direct call bridge_service.refine_parameters_with_knowledge(llm_extracted_params)
RefineParametersWithKnowledge ==
    /\ call.k = "refine_parameters_with_knowledge"
    /\ call_result = Null
    /\ call_result' = refine_parameters_with_knowledge(call.llm_extracted_params)
    /\ UNCHANGED <<api_vars, llm_vars, gen_vars, call>>

NextRefine == RefineParametersWithKnowledge

(***************************************************************************)
(* Initial states: the requests and the analysis results that are served   *)
(***************************************************************************)
InitServices(T, Bodies, Replies, Configs) ==
    /\ pc = [t \in T |-> "recv"]
    /\ body \in [T -> Bodies]
    /\ llm_reply \in [T -> Replies]
    /\ analyzed_params = [t \in T |-> Null]
    /\ locals = [t \in T |-> Null]
    /\ design = [t \in T |-> Null]
    /\ response = [t \in T |-> 0]
    /\ reg = [t \in T |-> 0]
    /\ design_gen_stats = [total_requests |-> 0, successful_designs |-> 0, failed_designs |-> 0]
    /\ LLMServiceInit
    /\ llm_config \in Configs

\* the services with no design generation and no direct call under way
InitWith(T, Bodies, Replies, Configs) ==
    /\ InitServices(T, Bodies, Replies, Configs)
    /\ DesignGeneratorInit
    /\ NoCall

\* no request is being served
NoRequests == InitServices({}, {Null}, {Null}, {DefaultConfig})

NoConditions == [road_lanes |-> Absent, seismic_intensity |-> Absent]

NoConstraints ==
    [bridge_type_preference |-> Absent, span_preference_meters |-> Absent, girder_depth_m |-> Absent]

Body(conditions, constraints) ==
    [user_requirements |-> Str(<<"b","r","i","d","g","e">>), project_conditions |-> conditions,
     design_constraints |-> constraints]

FailedReplies == {[kind |-> "error", params |-> NoParams], [kind |-> "empty", params |-> NoParams]}

ParamsReplies(P) == {[kind |-> "params", params |-> p] : p \in P}

\* Requests with every combination of missing and null intent fields
MainParams ==
    [bridge_type_preference : {Absent, Null, Str(<<"C","o","n","t","i","n","u","o","u","s"," ","B","e","a","m">>)},
     specific_materials : {Absent, Null, Str(<<"S","t","e","e","l">>)},
     span_length_description : {Absent, Null, Str(<<"3"," ","s","p","a","n","s"," ","o","f"," ","4","0"," ","M">>)},
     estimated_span_meters : {Absent, Null, Dec(100, 0)},
     road_lanes_description : {Absent, Null, Str(<<"T","w","o"," ","l","a","n","e","s">>)},
     assumed_bridge_width : {Absent, Dec(15, 0)},
     load_requirements : {Absent}]

MainBodies ==
    {Null, [Body(NoConditions, NoConstraints) EXCEPT !.user_requirements = Absent]}
    \cup {Body(cd, cs) :
            cd \in [road_lanes : {Absent, Str(<<"U+53CC","U+5411","U+56DB","U+8F66","U+9053">>)},
                    seismic_intensity : {Absent, Str(<<"8","U+5EA6">>)}],
            cs \in [bridge_type_preference :
                        {Absent, Str(<<"T","e","r","r","o","r"," ","B","a","y"," ","A","r","c","h"," ","B","r","i","d","g","e">>),
                         Str(<<"P","r","e","s","t","r","e","s","s","e","d"," ","C","o","n","c","r","e","t","e"," ","C","o","n","t","i","n","u","o","u","s"," ","B","e","a","m"," ","B","r","i","d","g","e">>),
                         Str(<<"U+9884","U+5E94","U+529B","U+6DF7","U+51DD","U+571F","U+8FDE","U+7EED","U+6881","U+6865">>)},
                    span_preference_meters : {Absent, Dec(60, 0)},
                    girder_depth_m : {Absent}]}

Init == InitWith({1}, MainBodies, FailedReplies \cup ParamsReplies(MainParams), {DefaultConfig})

Spec == Init /\ [][Next]_vars

\* Requests whose span comes from every short span description, with and without the
\* sources that take precedence over it
MaxDescLen == 4

DescAlphabet == {"0", "2", ".", "m", "M", " "}

TextsUpTo(alphabet, n) == UNION {[1..len -> alphabet] : len \in 0..n}

SpanDescriptions ==
    {Absent, Str(<<"2"," ","s","p","a","n","s"," ","o","f"," ","4","0","m">>), Str(<<"a","p","p","r","o","x"," ","1","0","0"," ","M">>)}
    \cup {Str(s) : s \in TextsUpTo(DescAlphabet, MaxDescLen)}

SpanParams ==
    [bridge_type_preference : {Str(<<"c","o","n","t","i","n","u","o","u","s"," ","b","e","a","m">>), Str(<<"a","r","c","h">>)},
     specific_materials : {Absent},
     span_length_description : SpanDescriptions,
     estimated_span_meters : {Absent, Dec(100, 0)},
     road_lanes_description : {Absent},
     assumed_bridge_width : {Absent},
     load_requirements : {Absent}]

SpanBodies ==
    {Body(NoConditions, cs) :
        cs \in [bridge_type_preference : {Absent},
                span_preference_meters : {Absent, Dec(0, 0), Dec(-605, 1)},
                girder_depth_m : {Absent, Dec(3, 0)}]}

InitSpan ==
    InitWith({1}, SpanBodies, FailedReplies \cup ParamsReplies(SpanParams), {DefaultConfig})

SpecSpan == InitSpan /\ [][Next]_vars

\* Requests whose width comes from every short lane text, from the lane texts of the tests and
\* the prompt, and from the width hints an intent can carry
MaxLanesLen == 2

LaneAlphabet == {"2", "4", "6", "8", "x"}

LaneTexts ==
    {Absent, Str(<<"U+53CC","U+5411","U+56DB","U+8F66","U+9053">>), Str(<<"T","w","o"," ","l","a","n","e","s">>), Str(<<"S","I","X"," ","l","a","n","e","s">>), Str(<<"U+516B","U+8F66","U+9053">>), Str(<<"U+4E24","U+8F66","U+9053">>),
     Str(<<"d","u","a","l"," ","3","-","l","a","n","e"," ","c","a","r","r","i","a","g","e","w","a","y","s">>), Str(<<"w","i","d","e">>)}
    \cup {Str(s) : s \in TextsUpTo(LaneAlphabet, MaxLanesLen)}

WidthParams ==
    [bridge_type_preference : {Absent},
     specific_materials : {Absent},
     span_length_description : {Absent},
     estimated_span_meters : {Absent},
     road_lanes_description : {Absent, Str(<<"e","i","g","h","t"," ","l","a","n","e","s">>), Str(<<"t","w","o"," ","l","a","n","e","s"," ","w","i","t","h"," ","p","e","d","e","s","t","r","i","a","n"," ","w","a","l","k","w","a","y">>)},
     assumed_bridge_width : {Absent, Null, Dec(15, 0), Dec(0, 0), Dec(-5, 0)},
     load_requirements : {Absent}]

WidthBodies ==
    {Body(cd, NoConstraints) : cd \in [road_lanes : LaneTexts, seismic_intensity : {Absent}]}

InitWidth ==
    InitWith({1}, WidthBodies, FailedReplies \cup ParamsReplies(WidthParams), {DefaultConfig})

SpecWidth == InitWidth /\ [][Next]_vars

\* Several requests served at the same time by the threads of the development server
MaxThreads == 2

ConcBodies == {Null, Body(NoConditions, NoConstraints)}

ConcReplies == FailedReplies \cup ParamsReplies({NoParams})

InitConc == InitWith(1..MaxThreads, ConcBodies, ConcReplies, {DefaultConfig})

SpecConc == InitConc /\ [][Next]_vars

\* The LLM service alone, analysing one text after another under every configuration
InitFailover ==
    InitWith({}, {Null}, FailedReplies, [{"deepseek", "ollama"} -> BOOLEAN])

SpecFailover == InitFailover /\ [][NextLLM]_vars

\* the event loop runs the coroutine of a started analysis on, and every request ends, by an
\* answer or by its timeout of 30 or 60 seconds
SpecFailoverFair == SpecFailover /\ WF_vars(AnalysisStep)


\* The validator alone: each of its checks called once on a design's values
RatioTypes ==
    {<<"P","r","e","s","t","r","e","s","s","e","d"," ","C","o","n","c","r","e","t","e"," ","C","o","n","t","i","n","u","o","u","s"," ","B","e","a","m"," ","B","r","i","d","g","e">>, <<"P","r","e","s","t","r","e","s","s","e","d"," ","C","o","n","c","r","e","t","e"," ","A","r","c","h">>,
     <<"P","C"," ","p","r","e","s","t","r","e","s","s","e","d"," ","s","t","e","e","l"," ","g","i","r","d","e","r">>, <<"P","r","e","s","t","r","e","s","s","e","d"," ","S","t","e","e","l"," ","G","i","r","d","e","r">>, <<"S","t","e","e","l"," ","T","r","u","s","s"," ","B","r","i","d","g","e">>,
     <<"S","t","e","e","l"," ","C","o","n","c","r","e","t","e"," ","C","o","m","p","o","s","i","t","e"," ","G","i","r","d","e","r">>, <<"C","o","n","c","r","e","t","e"," ","A","r","c","h"," ","B","r","i","d","g","e">>, <<"R","e","i","n","f","o","r","c","e","d"," ","C","o","n","c","r","e","t","e"," ","B","e","a","m">>,
     <<"C","o","n","c","r","e","t","e"," ","T","r","u","s","s">>, <<"T","i","m","b","e","r"," ","T","r","u","s","s">>, <<"S","u","s","p","e","n","s","i","o","n"," ","B","r","i","d","g","e">>, <<"U+9884","U+5E94","U+529B","U+6DF7","U+51DD","U+571F","U+8FDE","U+7EED","U+6881","U+6865">>}

RatioSpans == {Dec(60, 0), Dec(45, 0), Dec(30, 0), Dec(20, 0), Dec(0, 0), Dec(-10, 0)}

RatioDepths == {Dec(2, 0), Dec(3, 0), Dec(15, 1), Dec(25, 1), Dec(6, 0), Dec(0, 0)}

RatioCalls ==
    [k : {"validate_span_to_depth_ratio"}, span : RatioSpans, depth : RatioDepths,
     bridge_type : RatioTypes]

MaterialTexts ==
    {Absent, Str(<<"C","5","0"," ","U+9884","U+5E94","U+529B","U+6DF7","U+51DD","U+571F">>), Str(<<"C","4","0","/","5","0">>), Str(<<"C","4","0">>), Str(<<"Q","3","4","5"," ","s","t","e","e","l">>),
     Str(<<"P","r","e","s","t","r","e","s","s","e","d"," ","C","o","n","c","r","e","t","e"," ","C","5","0">>)}

MaterialSets ==
    {[NoMaterials EXCEPT !.main_beams_material = m, !.concrete_grade = c,
                         !.prestressing_steel_type = p] :
        m \in MaterialTexts, c \in {Absent, Str(<<"C","4","0","/","5","0">>), Str(<<"C","4","0">>)},
        p \in {Absent, Str(<<"A","S","T","M"," ","A","4","1","6"," ","G","r","a","d","e"," ","2","7","0">>)}}

MaterialTypes ==
    {<<"P","r","e","s","t","r","e","s","s","e","d"," ","C","o","n","c","r","e","t","e"," ","C","o","n","t","i","n","u","o","u","s"," ","B","e","a","m"," ","B","r","i","d","g","e">>, <<"P","S","C"," ","B","o","x"," ","G","i","r","d","e","r">>, <<"S","t","e","e","l"," ","T","r","u","s","s"," ","B","r","i","d","g","e">>,
     <<"R","e","i","n","f","o","r","c","e","d"," ","C","o","n","c","r","e","t","e"," ","B","e","a","m">>, <<"c","o","n","c","r","e","t","e","_","b","e","a","m">>, <<"U+9884","U+5E94","U+529B","U+6DF7","U+51DD","U+571F","U+8FDE","U+7EED","U+6881","U+6865">>}

MaterialCalls ==
    [k : {"validate_material_compatibility"}, materials : MaterialSets,
     bridge_type : MaterialTypes, span : {Dec(60, 0), Dec(350, 0)}]

IntensityTexts ==
    {Null, Str(<< >>), Str(<<"8","U+5EA6">>), Str(<<"7">>), Str(<<"6","U+5EA6">>), Str(<<"6","U+5EA6"," ","(","0",".","0","5","g",")">>), Str(<<"I","n","t","e","n","s","i","t","y"," ","7">>),
     Str(<<"V","I","I","I">>), Str(<<"9","U+5EA6"," ","(","0",".","4","g",")">>), Str(<<"s","e","i","s","m","i","c"," ","z","o","n","e"," ","4">>)}

SeismicParamSets ==
    [seismic_design_intensity : {Absent, Null, Str(<<"8","U+5EA6">>)},
     seismic_considerations_foundation : {Absent, Str(<< >>), Str(<<"t","h","i","c","k","e","r"," ","p","i","l","e"," ","c","a","p">>)},
     other_seismic_details : {Absent, Str(<<"p","l","a","s","t","i","c"," ","h","i","n","g","e"," ","z","o","n","e","s">>)},
     beam_to_pier_connection :
         {Absent, Null, Str(<<"p","o","t"," ","b","e","a","r","i","n","g","s">>), Str(<<"V","i","s","c","o","u","s"," ","D","a","m","p","e","r">>), Str(<<"U+76C6","U+5F0F","U+6A61","U+80F6","U+652F","U+5EA7","U+FF0C","U+8BBE","U+6297","U+9707","U+6321","U+5757">>),
          Str(<<"b","a","s","e"," ","i","s","o","l","a","t","i","o","n"," ","b","e","a","r","i","n","g","s">>), Str(<<"S","e","i","s","m","i","c"," ","s","t","o","p","p","e","r","s">>), Str(<<"U+8BBE","U+9650","U+4F4D","U+88C5","U+7F6E">>)}]

SeismicCalls ==
    [k : {"validate_seismic_requirements"}, design_params : SeismicParamSets,
     design_materials :
         {[NoMaterials EXCEPT !.reinforcement_steel_grade = g] : g \in {Absent, Str(<<"H","R","B","4","0","0">>), Str(<<"H","R","B","4","0","0","E">>)}},
     seismic_intensity_str : IntensityTexts]

InitValidator ==
    /\ NoRequests
    /\ DesignGeneratorInit
    /\ call \in RatioCalls \cup MaterialCalls \cup SeismicCalls
    /\ call_result = Null

SpecValidator == InitValidator /\ [][NextValidator]_vars

\* The design generator alone, run once on each scheme the LLM may answer with
MockedMaterials ==
    [NoMaterials EXCEPT !.main_beams_material = Str(<<"C","5","0"," ","U+9884","U+5E94","U+529B","U+6DF7","U+51DD","U+571F">>),
                        !.deck_slab_material = Str(<<"C","4","0"," ","U+6DF7","U+51DD","U+571F">>),
                        !.reinforcement_steel_grade = Str(<<"H","R","B","4","0","0","D">>),
                        !.prestressing_steel_type = Str(<<"U+9AD8","U+5F3A","U+5EA6","U+4F4E","U+677E","U+5F1B","U+94A2","U+7EDE","U+7EBF"," ","A","S","T","M"," ","A","4","1","6"," ","G","r","a","d","e"," ","2","7","0">>)]

\* the response _call_llm_service makes up for a span of 60 m
MockedScheme ==
    [bridge_type_selection |-> [type |-> Str(<<"U+9884","U+5E94","U+529B","U+6DF7","U+51DD","U+571F","U+8FDE","U+7EED","U+6881","U+6865">>), reason |-> Str(<<"M","o","c","k","e","d">>)],
     main_structural_parameters |->
         [NoMainParams EXCEPT !.main_span_m = Dec(60, 0),
                              !.beam_height_m = calculate_beam_height(Dec(60, 0), "continuous"),
                              !.seismic_design_intensity = Str(<<"8","U+5EA6"," ","(","m","o","c","k","e","d"," ","f","r","o","m"," ","p","r","o","m","p","t",")">>)],
     material_specifications |-> MockedMaterials,
     foundation_form_and_size |->
         [type |-> Str(<<"U+94BB","U+5B54","U+704C","U+6CE8","U+6869","U+57FA","U+7840">>), seismic_considerations |-> Str(<<"M","o","c","k","e","d",":"," ","U+6869","U+57FA","U+627F","U+53F0","U+52A0","U+539A">>)],
     key_node_construction |->
         [beam_to_pier_connection |-> Str(<<"U+76C6","U+5F0F","U+6A61","U+80F6","U+652F","U+5EA7","U+FF0C","U+8BBE","U+6297","U+9707","U+6321","U+5757">>),
          other_seismic_details |-> Str(<<"U+6865","U+58A9","U+9876","U+90E8","U+8BBE","U+7F6E","U+5851","U+6027","U+94F0","U+533A">>)],
     construction_points |-> Str(<<"U+91C7","U+7528","U+79FB","U+52A8","U+6A21","U+67B6","U+9010","U+5B54","U+65BD","U+5DE5">>)]

\* the response _call_llm_service gives when it failed
FailedScheme ==
    [section \in DictSections \cup {"construction_points"} |-> [error |-> Str(<<"t","i","m","e","o","u","t">>)]]

Schemes ==
    {MockedScheme, FailedScheme}
    \cup
    [bridge_type_selection :
         {Absent} \cup [type : {Str(<<"P","r","e","s","t","r","e","s","s","e","d"," ","C","o","n","c","r","e","t","e"," ","C","o","n","t","i","n","u","o","u","s"," ","B","e","a","m"," ","B","r","i","d","g","e">>),
                                Str(<<"S","t","e","e","l"," ","T","r","u","s","s"," ","B","r","i","d","g","e">>), Str(<<"U","n","k","n","o","w","n">>)},
                        reason : {Str(<<"M","o","c","k","e","d">>)}],
     main_structural_parameters :
         [main_span_m : {Absent, Null, Dec(0, 0), Dec(60, 0)},
          beam_height_m : {Absent, Dec(3, 0), Dec(1, 0)},
          seismic_design_intensity : {Absent, Str(<<"8","U+5EA6">>)},
          estimated_beam_height_from_rule_m : {Absent}],
     material_specifications :
         {NoMaterials, MockedMaterials, [NoMaterials EXCEPT !.concrete_grade = Str(<<"C","4","0","/","5","0">>)]},
     foundation_form_and_size :
         [type : {Str(<<"p","i","l","e","s">>)}, seismic_considerations : {Absent, Str(<<"t","h","i","c","k","e","r"," ","p","i","l","e"," ","c","a","p">>)}],
     key_node_construction :
         [beam_to_pier_connection : {Absent, Str(<<"p","o","t"," ","b","e","a","r","i","n","g","s">>)},
          other_seismic_details : {Absent}],
     construction_points : {Str(<<"c","a","s","t"," ","i","n"," ","p","l","a","c","e">>)}]

Requirements ==
    {NoRequirements,
     [NoRequirements EXCEPT !.project_conditions = [seismic_intensity |-> Str(<<"8","U+5EA6">>)]],
     [NoRequirements EXCEPT !.project_conditions = [seismic_intensity |-> Str(<<"6","U+5EA6"," ","(","0",".","0","5","g",")">>)]],
     [NoRequirements EXCEPT !.project_conditions = [seismic_intensity |-> Absent],
                            !.environmental_factors = Str(<<"r","i","v","e","r",","," ","7"," ","U+5EA6"," ","a","r","e","a">>)],
     [NoRequirements EXCEPT !.environmental_factors = Str(<<"i","n"," ","S","e","i","s","m","i","c"," ","Z","o","n","e"," ","8">>)],
     [NoRequirements EXCEPT !.environmental_factors = Str(<<"Z","o","n","e"," ","I","V",","," ","w","i","n","d","y">>)],
     [NoRequirements EXCEPT !.environmental_factors = Str(<<"e","a","r","t","h","q","u","a","k","e"," ","p","r","o","n","e">>)],
     [NoRequirements EXCEPT !.environmental_factors = Str(<<"w","i","n","d","y">>),
                            !.seismic_intensity = Dec(8, 0)],
     [NoRequirements EXCEPT !.seismic_zone_description = Str(<<"i","n","t","e","n","s","i","t","y"," ","6">>)]}

InitGenerator ==
    /\ NoRequests
    /\ NoCall
    /\ gen_pc = "call_llm"
    /\ requirements \in Requirements
    /\ llm_generated_scheme \in Schemes
    /\ calculated_scheme = Null
    /\ verify_locals = Null
    /\ verification_notes = Null
    /\ final_design = Null

SpecGenerator == InitGenerator /\ [][NextGenerator]_vars

\* The geometry builder alone: each of its functions called once
GirderCalls ==
    [k : {"create_box_girder"}, length : {Dec(50, 0)},
     width : {Dec(5, 0), Dec(1, 0), Dec(6, 1)},
     height : {Dec(3, 0), Dec(2, 0), Dec(5, 1)},
     wall_thickness : {Dec(3, 1), Dec(25, 2), Dec(5, 1), Dec(1, 0), Dec(15, 1), Dec(0, 0), Dec(-1, 1)}]

PierCalls ==
    [k : {"create_pier"},
     pier_type : {<<"c","y","l","i","n","d","r","i","c","a","l">>, <<"r","e","c","t","a","n","g","u","l","a","r">>, <<"o","c","t","a","g","o","n","a","l">>, <<"C","y","l","i","n","d","r","i","c","a","l">>, << >>, <<"p","i","l","e","_","c","a","p">>},
     height : {Dec(10, 0), Dec(8, 0)},
     cross_section : [radius : {Absent, Dec(12, 1)}, width : {Absent, Dec(15, 1)},
                      depth : {Absent, Dec(25, 1)}]]

FoundationCalls ==
    [k : {"create_foundation"},
     foundation_type : {<<"p","i","l","e","_","c","a","p">>, <<"s","p","r","e","a","d","_","f","o","o","t","i","n","g">>, <<"r","a","f","t">>, <<"P","i","l","e","_","C","a","p">>, <<"c","y","l","i","n","d","r","i","c","a","l">>},
     dimensions : [length : {Absent, Dec(6, 0)}, width : {Absent, Dec(7, 0)},
                   height : {Absent, Dec(2, 0)}]]

InitGeometry ==
    /\ NoRequests
    /\ DesignGeneratorInit
    /\ call \in GirderCalls \cup PierCalls \cup FoundationCalls
    /\ call_result = Null

SpecGeometry == InitGeometry /\ [][NextGeometry]_vars

(***************************************************************************)
(* Scenes: direct calls of the response parser and of the scene generator  *)
(***************************************************************************)
Vec(x, y, z) == List(<<Dec(x, 0), Dec(y, 0), Dec(z, 0)>>)

Described(name, type, dimensions, position) ==
    [name |-> name, type |-> type, dimensions |-> dimensions, material |-> Absent,
     position |-> position]

\* the girder, piers and footings of the simulated response of generate_model_from_design
StandardMaterial == [k |-> "dict", type |-> <<"M","e","s","h","S","t","a","n","d","a","r","d","M","a","t","e","r","i","a","l">>]

SimulatedGirder ==
    [Described(Str(<<"m","a","i","n","G","i","r","d","e","r">>), Str(<<"b","o","x">>),
               [NoDimensions EXCEPT !.length = Dec(50, 0), !.width = Dec(6, 0),
                                    !.height = Dec(3, 0), !.wall_thickness = Dec(4, 1)],
               Vec(0, 10, 0))
     EXCEPT !.material = StandardMaterial]

SimulatedPier(name, x) ==
    [Described(Str(name), Str(<<"c","y","l","i","n","d","r","i","c","a","l">>),
               [NoDimensions EXCEPT !.height = Dec(10, 0), !.radius = Dec(1, 0)], Vec(x, 0, 0))
     EXCEPT !.material = StandardMaterial]

SimulatedFooting(name, x) ==
    [Described(Str(name), Str(<<"s","p","r","e","a","d","_","f","o","o","t","i","n","g">>),
               [NoDimensions EXCEPT !.length = Dec(4, 0), !.width = Dec(4, 0),
                                    !.height = Dec(15, 1)],
               List(<<Dec(x, 0), Dec(-575, 2), Dec(0, 0)>>))
     EXCEPT !.material = StandardMaterial]

GirderLists ==
    {<< >>,
     <<SimulatedGirder>>,
     <<Described(Absent, Str(<<"b","o","x">>), NoDimensions, Absent)>>,
     <<Described(Str(<<"T","G">>), Str(<<"t","_","g","i","r","d","e","r">>), NoDimensions, Vec(0, 8, 0))>>,
     <<Described(Str(<<"T","G">>), Str(<<"t","_","g","i","r","d","e","r">>), NoDimensions, Absent)>>,
     <<Described(Str(<<"A","r","c","h">>), Str(<<"a","r","c","h">>), NoDimensions, Vec(0, 10, 0))>>,
     <<SimulatedGirder, Described(Str(<<"T","G">>), Str(<<"t","_","g","i","r","d","e","r">>), NoDimensions, Vec(0, 8, 4))>>}

PierLists ==
    {<< >>,
     <<SimulatedPier(<<"p","i","e","r","1">>, -15), SimulatedPier(<<"p","i","e","r","2">>, 15)>>,
     <<Described(Absent, Absent, NoDimensions, Vec(100, 0, 0))>>,
     <<Described(Str(<<"R">>), Str(<<"r","e","c","t","a","n","g","u","l","a","r">>), NoDimensions, Absent)>>}

FoundationLists ==
    {<< >>,
     <<SimulatedFooting(<<"f","o","u","n","d","a","t","i","o","n","1">>, -15), SimulatedFooting(<<"f","o","u","n","d","a","t","i","o","n","2">>, 15)>>,
     <<Described(Absent, Absent, NoDimensions, Absent)>>}

SceneSetups ==
    {[camera_position |-> Absent], [camera_position |-> Vec(15, 40, 80)],
     [camera_position |-> Vec(0, 20, 50)]}

ParsedData ==
    [scene_setup : SceneSetups, girders : GirderLists, piers : PierLists,
     foundations : FoundationLists]

ParseCalls == [k : {"_parse_llm_response_to_structured_data"}, parsed_data : ParsedData \cup {Null}]

\* generate_model_from_design hands the parsed data to the generator
SceneCalls ==
    [k : {"generate_bridge_scene"},
     bridge_data : {parse_llm_response_to_structured_data(d) : d \in ParsedData}]

InitScene ==
    /\ NoRequests
    /\ DesignGeneratorInit
    /\ call \in ParseCalls \cup SceneCalls
    /\ call_result = Null

SpecScene == InitScene /\ [][NextScene]_vars

(***************************************************************************)
(* Drawings: direct calls of the drawing service and of the two endpoints  *)
(***************************************************************************)
\* a design as generate_preliminary_design builds it, cut to the fields the drawings read
Drawn(span, girder_type) ==
    [bridge_type |-> Str(<<"B","e","a","m"," ","B","r","i","d","g","e">>), span_lengths |-> <<span>>,
     bridge_width |-> Dec(12, 0),
     main_girder |-> [type |-> Str(girder_type), depth_m |-> depth_m(span)]]

DrawnSpans == {Dec(60, 0), Dec(20, 0), Dec(33333, 3), Dec(36, 0), Dec(50, 0)}

\* a caller that supplies the keys generate_drawings reads
WithViewData(d) ==
    [bridge_type |-> d.bridge_type, span_lengths |-> d.span_lengths,
     bridge_width |-> d.bridge_width, main_girder |-> d.main_girder,
     elevation_data |-> d, girder_data |-> d]

DrawnDesigns ==
    {Drawn(span, girder_type) : span \in DrawnSpans,
                                girder_type \in {<<"I","-","G","i","r","d","e","r">>, <<"B","o","x"," ","G","i","r","d","e","r">>}}
    \cup {WithViewData(Drawn(Dec(60, 0), <<"I","-","G","i","r","d","e","r">>)),
          ErrorDesign(<<"E","r","r","o","r"," ","-"," ","A","n","a","l","y","s","i","s"," ","F","a","i","l","e","d">>, <<"A","n","a","l","y","s","i","s"," ","f","a","i","l","e","d">>),
          [bridge_type |-> Str(<<"B","e","a","m"," ","B","r","i","d","g","e">>)],
          [bridge_type |-> Str(<<"B","e","a","m"," ","B","r","i","d","g","e">>), span_lengths |-> << >>],
          [bridge_type |-> Str(<<"B","e","a","m"," ","B","r","i","d","g","e">>), main_girder |-> Null]}

\* the drawing types main.py documents as supported
SupportedDrawingTypes ==
    <<<<"b","r","i","d","g","e","_","e","l","e","v","a","t","i","o","n","_","v","i","e","w">>, <<"p","l","a","n","_","v","i","e","w">>, <<"g","i","r","d","e","r","_","s","e","c","t","i","o","n","_","v","i","e","w">>, <<"p","i","e","r","_","s","e","c","t","i","o","n","_","v","i","e","w">>,
      <<"f","o","u","n","d","a","t","i","o","n","_","p","l","a","n","_","v","i","e","w">>, <<"t","y","p","i","c","a","l","_","n","o","d","e","_","d","e","t","a","i","l">>>>

DrawingTypeLists ==
    {<<SupportedDrawingTypes[i]>> : i \in 1..6}
    \cup {<< >>, SupportedDrawingTypes, <<<<"s","i","t","e","_","p","l","a","n">>>>,
          <<<<"p","l","a","n","_","v","i","e","w">>, <<"p","l","a","n","_","v","i","e","w">>>>,
          <<<<"b","r","i","d","g","e","_","e","l","e","v","a","t","i","o","n","_","v","i","e","w">>, <<"g","i","r","d","e","r","_","s","e","c","t","i","o","n","_","v","i","e","w">>>>,
          <<<<"b","r","i","d","g","e","_","e","l","e","v","a","t","i","o","n","_","v","i","e","w">>, <<"p","l","a","n","_","v","i","e","w">>, <<"g","i","r","d","e","r","_","s","e","c","t","i","o","n","_","v","i","e","w">>,
            <<"t","y","p","i","c","a","l","_","n","o","d","e","_","d","e","t","a","i","l">>>>,
          <<<<"g","i","r","d","e","r","_","s","e","c","t","i","o","n","_","v","i","e","w">>, <<"p","i","e","r","_","s","e","c","t","i","o","n","_","v","i","e","w">>, <<"b","r","i","d","g","e","_","e","l","e","v","a","t","i","o","n","_","v","i","e","w">>>>}

DrawingCalls ==
    [k : {"generate_drawings"}, bridge_design : DrawnDesigns, drawing_types : DrawingTypeLists]
    \cup [k : {"generate_drawings_api"}, design : DrawnDesigns, drawing_types : DrawingTypeLists]
    \cup [k : {"generate_2d_drawing_api"},
          data : {Null} \cup [design_data : DrawnDesigns]]

InitDrawing ==
    /\ NoRequests
    /\ DesignGeneratorInit
    /\ call \in DrawingCalls
    /\ call_result = Null

SpecDrawing == InitDrawing /\ [][NextDrawing]_vars

(***************************************************************************)
(* Refinement: direct calls with the parameters an analysis may extract    *)
(***************************************************************************)
TypePreferences ==
    {Absent, Null, Str(<< >>), Str(<<"b","e","a","m">>), Str(<<"a","r","c","h">>), Str(<<"C","o","n","t","i","n","u","o","u","s"," ","B","e","a","m">>),
     Str(<<"c","o","n","t","i","n","u","o","u","s"," ","g","i","r","d","e","r">>), Str(<<"c","o","n","t","i","n","u","o","u","s"," ","a","r","c","h">>), Str(<<"C","o","n","t","i","n","u","o","u","s"," ","C","a","b","l","e","-","S","t","a","y","e","d">>),
     Str(<<"c","o","n","t","i","n","u","o","u","s"," ","s","u","s","p","e","n","s","i","o","n"," ","b","r","i","d","g","e">>), Str(<<"c","o","n","t","i","n","u","o","u","s">>), Str(<<"C","o","n","t","i","n","u","o","u","s"," ","T","r","u","s","s">>),
     Str(<<"P","S","C"," ","c","o","n","t","i","n","u","o","u","s"," ","b","o","x"," ","g","i","r","d","e","r">>), Str(<<"c","o","n","t","i","n","u","o","u","s"," ","p","r","e","s","t","r","e","s","s","e","d"," ","c","o","n","c","r","e","t","e"," ","b","e","a","m">>),
     Str(<<"p","r","e","s","t","r","e","s","s","e","d"," ","c","o","n","t","i","n","u","o","u","s"," ","a","r","c","h">>)}

MaterialPreferences ==
    {Absent, Str(<<"p","r","e","s","t","r","e","s","s","e","d"," ","c","o","n","c","r","e","t","e">>), Str(<<"s","t","e","e","l">>), Str(<<"p","r","e","s","t","r","e","s","s","e","d">>)}

RefineCalls ==
    [k : {"refine_parameters_with_knowledge"},
     llm_extracted_params :
         {[NoParams EXCEPT !.bridge_type_preference = bt, !.specific_materials = sm] :
              bt \in TypePreferences, sm \in MaterialPreferences}]

InitRefine ==
    /\ NoRequests
    /\ DesignGeneratorInit
    /\ call \in RefineCalls
    /\ call_result = Null

SpecRefine == InitRefine /\ [][NextRefine]_vars


(***************************************************************************)
(* Properties                                                              *)
(***************************************************************************)
Returned(t) == pc[t] \in {"store_outcome", "respond", "done"} /\ design[t] # Null

Answered(t) == pc[t] = "done" /\ design[t] # Null

AnalysisFailed(t) == analyzed_params[t] # Null /\ Truthy(analyzed_params[t].error)

IsErrorDesign(d) == d.main_girder.error # Absent

\* C1: whenever the analysis returns an error-tagged result, generate_preliminary_design
\* returns (it does not raise) the sentinel design: bridge_type "Error - Analysis Failed",
\* span_lengths [0], bridge_width 0, and no parameter was refined.
C1_AnalysisErrorGivesSentinel ==
    \A t \in Threads :
        pc[t] \in {"store_outcome", "respond", "done"} /\ AnalysisFailed(t) =>
            /\ design[t] # Null
            /\ design[t].bridge_type = Str(<<"E","r","r","o","r"," ","-"," ","A","n","a","l","y","s","i","s"," ","F","a","i","l","e","d">>)
            /\ design[t].span_lengths = <<Dec(0, 0)>>
            /\ design[t].bridge_width = Dec(0, 0)
            /\ locals[t] = Null

C1_Witness ==
    \E t \in Threads :
        /\ pc[t] = "done"
        /\ llm_reply[t].kind = "error"
        /\ AnalysisFailed(t)
        /\ design[t].bridge_type = Str(<<"E","r","r","o","r"," ","-"," ","A","n","a","l","y","s","i","s"," ","F","a","i","l","e","d">>)

\* C2: the endpoint answers 5xx for the analysis-failure sentinel, and every design that
\* generate_preliminary_design built without failing is answered 2xx, whatever its
\* bridge-type text is and wherever that text comes from.
C2_StatusFollowsFailure ==
    \A t \in Threads :
        Answered(t) =>
            /\ AnalysisFailed(t) => response[t] = 500
            /\ ~IsErrorDesign(design[t]) => response[t] = 200

\* C3: an intent without an error tag gives a design that is no error design, whichever of
\* its optional fields are missing or null, with type Beam Bridge, span 50.0 and width 12.0
\* when nothing at all says otherwise.
C3_MissingOrNullFieldsGiveDefaults ==
    \A t \in Threads :
        Answered(t) /\ llm_reply[t].kind = "params" =>
            /\ ~IsErrorDesign(design[t])
            /\ design[t].bridge_type.s # <<"E","r","r","o","r"," ","-"," ","U","n","e","x","p","e","c","t","e","d"," ","F","a","i","l","u","r","e">>
            /\ LET p == llm_reply[t].params
                   c == body[t].design_constraints
                   none(v) == v = Absent \/ v = Null
               IN  /\ none(p.bridge_type_preference) /\ none(p.specific_materials)
                        /\ c.bridge_type_preference = Absent
                      => design[t].bridge_type = Str(<<"B","e","a","m"," ","B","r","i","d","g","e">>)
                   /\ none(p.span_length_description) /\ none(p.estimated_span_meters)
                        /\ c.span_preference_meters = Absent
                      => design[t].span_lengths = <<Dec(50, 0)>>
                   /\ none(p.road_lanes_description) /\ p.assumed_bridge_width = Absent
                        /\ body[t].project_conditions.road_lanes = Absent
                      => design[t].bridge_width = Dec(12, 0)

\* the calls of the running analysis that have returned a usable result
UsableCalls == {i \in 1..Len(calls) : calls[i].result.kind = "params"}

\* C4: analyze_text_with_failover calls DeepSeek, Ollama, Qwen in this order and one at a
\* time: when a provider is called every earlier one has returned an error or empty result
\* (so none is pending and none is called after a usable result), and the pair returned is the
\* first usable result with the name of its provider, or an error labelled "none" only when
\* all three gave none.
C4_SequentialFailover ==
    /\ Len(calls) <= Len(ProviderOrder)
    /\ \A i \in 1..Len(calls) :
          /\ calls[i].provider = ProviderOrder[i]
          /\ \A j \in 1..(i - 1) : calls[j].result.kind \in {"error", "empty"}
    /\ llm_pc = "returned" =>
          IF UsableCalls # {}
          THEN LET first == CHOOSE i \in UsableCalls : \A j \in UsableCalls : i <= j
               IN  /\ returned.result = calls[first].result
                   /\ returned.result.from = calls[first].provider
                   /\ returned.provider = ProviderName[calls[first].provider]
          ELSE /\ returned.provider = "none"
               /\ returned.result.kind = "error"
               /\ Len(calls) = Len(ProviderOrder)
    /\ llm_pc # "returned" => returned.provider = "unset"

\* DeepSeek is configured and fails after its retries, then Ollama answers
C4_Witness ==
    /\ llm_pc = "returned"
    /\ llm_config["deepseek"]
    /\ Len(calls) = 2
    /\ calls[1] = [provider |-> "deepseek", result |-> Result("error", "deepseek")]
    /\ call_stats["deepseek"].errors > 0
    /\ returned = [result |-> Result("params", "ollama"), provider |-> "Ollama"]

\* the requests that reached generate_preliminary_design
Served == {t \in Threads : design[t] # Null}

\* C5: when all the requests served at the same time have been answered, no increment of a
\* counter is lost: total_requests is the number of requests served and equals
\* successful_designs + failed_designs.
C5_NoIncrementLost ==
    (\A t \in Threads : pc[t] = "done") =>
        /\ design_gen_stats.total_requests = Cardinality(Served)
        /\ design_gen_stats.total_requests =
              design_gen_stats.successful_designs + design_gen_stats.failed_designs

\* the value of a number without its sign
Magnitude(v) == Dec(Abs(v.m), v.e)

\* the number a regex search found, 0 when it found none
Found(match) == IF match = Null THEN Dec(0, 0) ELSE ParseFloat(match.s)

OrDefaultSpan(v) == IF v.m > 0 THEN v ELSE Dec(50, 0)

GoodDesign(t) == Returned(t) /\ ~IsErrorDesign(design[t])

\* C6 as claimed: the span is taken from the first available source in the order
\* span_preference_meters constraint, estimated_span_meters of the intent, first decimal
\* number occurring in the span description; with no source it is 50.0.
C6_FirstNumberOfDescription ==
    \A t \in Threads :
        GoodDesign(t) =>
            LET c == body[t].design_constraints.span_preference_meters
                p == llm_reply[t].params
            IN  design[t].span_lengths[1] =
                    IF Truthy(c) THEN Magnitude(c)
                    ELSE IF Truthy(p.estimated_span_meters) THEN Magnitude(p.estimated_span_meters)
                    ELSE OrDefaultSpan(Found(SearchNumber(TextOf(p.span_length_description))))

\* C6 amended: as claimed, but in the span description the first number that is followed,
\* after optional whitespace, by "m" or "M" is taken when there is one and it is not zero,
\* and the first number of the description otherwise.
C6_MetresNumberOfDescription ==
    \A t \in Threads :
        GoodDesign(t) =>
            LET c == body[t].design_constraints.span_preference_meters
                p == llm_reply[t].params
                desc == TextOf(p.span_length_description)
                metres == Found(SearchMetres(Lower(desc)))
            IN  design[t].span_lengths[1] =
                    IF Truthy(c) THEN Magnitude(c)
                    ELSE IF Truthy(p.estimated_span_meters) THEN Magnitude(p.estimated_span_meters)
                    ELSE IF metres.m > 0 THEN metres
                    ELSE OrDefaultSpan(Found(SearchNumber(desc)))

\* a description with two numbers, the second one in metres, and no other source
C6_Witness ==
    \E t \in Threads :
        /\ pc[t] = "done"
        /\ ~IsErrorDesign(design[t])
        /\ body[t].design_constraints.span_preference_meters = Absent
        /\ llm_reply[t].params.estimated_span_meters = Absent
        /\ llm_reply[t].params.span_length_description = Str(<<"2"," ","s","p","a","n","s"," ","o","f"," ","4","0","m">>)
        /\ design[t].span_lengths = <<Dec(40, 0)>>

\* C7: the span of a design that is no error design is > 0; a source text without a number
\* and a parsed value <= 0 give the default 50.0.
C7_SpanPositive ==
    \A t \in Threads :
        GoodDesign(t) =>
            LET span == design[t].span_lengths[1]
                source == locals[t].span_source_text
            IN  /\ span.m > 0
                /\ (source = Null \/ Found(SearchNumber(source.s)).m <= 0) => span = Dec(50, 0)

\* a description whose only number is 0
C7_Witness ==
    \E t \in Threads :
        /\ pc[t] = "done"
        /\ ~IsErrorDesign(design[t])
        /\ locals[t].span_source_text = Str(<<"0",".","0","m">>)
        /\ design[t].span_lengths = <<Dec(50, 0)>>

\* C8: when the number of lanes resolves to n in {2, 4, 6, 8} the width of the design is
\* exactly n * 3.5 + (3.0 if n >= 4 else 1.5): 17.0 for four lanes, 8.5 for two.
C8_WidthOfLanes ==
    \A t \in Threads :
        GoodDesign(t) =>
            LET n == locals[t].num_lanes
                lanes == body[t].project_conditions.road_lanes
            IN  /\ n \in {2, 4, 6, 8} =>
                      design[t].bridge_width = Dec(n * 35 + (IF n >= 4 THEN 30 ELSE 15), 1)
                /\ lanes = Str(<<"U+53CC","U+5411","U+56DB","U+8F66","U+9053">>) => n = 4 /\ design[t].bridge_width = Dec(17, 0)
                /\ lanes = Str(<<"T","w","o"," ","l","a","n","e","s">>) => n = 2 /\ design[t].bridge_width = Dec(85, 1)

\* the lanes of the functional test
C8_Witness ==
    \E t \in Threads :
        /\ pc[t] = "done"
        /\ ~IsErrorDesign(design[t])
        /\ body[t].project_conditions.road_lanes = Str(<<"U+53CC","U+5411","U+56DB","U+8F66","U+9053">>)
        /\ locals[t].num_lanes = 4
        /\ design[t].bridge_width = Dec(17, 0)

\* C9: a design that is no error design has bridge_width > 0, also when no number of lanes
\* is resolved and the width is the assumed_bridge_width of the intent or the default 12.0.
C9_WidthPositive ==
    \A t \in Threads : GoodDesign(t) => design[t].bridge_width.m > 0

\* C10: for a bridge type that contains "continuous" the girder depth is span / 18 rounded to
\* two decimals (the hundredth nearest to span / 18), whatever depth the request names.
C10_ContinuousGirderDepth ==
    \A t \in Threads :
        GoodDesign(t) /\ Contains(Lower(design[t].bridge_type.s), <<"c","o","n","t","i","n","u","o","u","s">>) =>
            LET span == design[t].span_lengths[1]
                depth == design[t].main_girder.depth_m
                hundredths == depth.m * Pow10(2 - depth.e)
            IN  /\ depth.e <= 2
                /\ 2 * Abs(18 * hundredths * Pow10(span.e) - 100 * span.m) <= 18 * Pow10(span.e)

\* span 100 gives 5.56 although the request asks for a depth of 3
C10_Witness ==
    \E t \in Threads :
        /\ pc[t] = "done"
        /\ design[t].bridge_type = Str(<<"C","o","n","t","i","n","u","o","u","s"," ","B","e","a","m"," ","B","r","i","d","g","e">>)
        /\ body[t].design_constraints.girder_depth_m = Dec(3, 0)
        /\ design[t].span_lengths = <<Dec(100, 0)>>
        /\ design[t].main_girder.depth_m = Dec(556, 2)
\* C11: for a bridge type without the continuous keyword the girder depth of the design is
\* span / 15 (to the hundredth), not the span / 18 of the continuous types.
C11_OtherTypesDepthFifteenth ==
    \A t \in Threads :
        GoodDesign(t) /\ ~Contains(Lower(design[t].bridge_type.s), <<"c","o","n","t","i","n","u","o","u","s">>) =>
            LET span == design[t].span_lengths[1]
                depth == design[t].main_girder.depth_m
                hundredths == depth.m * Pow10(2 - depth.e)
            IN  /\ depth.e <= 2
                /\ 2 * Abs(15 * hundredths * Pow10(span.e) - 100 * span.m) <= 15 * Pow10(span.e)

\* the bridge type names prestressed concrete, in English or in Chinese
DenotesPrestressedConcrete(bridge_type) ==
    \/ Contains(Lower(bridge_type), <<"p","r","e","s","t","r","e","s","s","e","d">>) /\ Contains(Lower(bridge_type), <<"c","o","n","c","r","e","t","e">>)
    \/ Contains(bridge_type, <<"U+9884","U+5E94","U+529B","U+6DF7","U+51DD","U+571F">>)

\* C12: whenever the bridge type of the design denotes prestressed concrete, also when it
\* comes from the bridge_type_preference constraint, the materials of the design name both
\* prestressing steel and concrete.
C12_PrestressedMaterials ==
    \A t \in Threads :
        GoodDesign(t) /\ DenotesPrestressedConcrete(design[t].bridge_type.s) =>
            /\ design[t].materials.prestressing_steel # Absent
            /\ design[t].materials.concrete_grade # Absent

(***************************************************************************)
(* The validator                                                           *)
(***************************************************************************)
\* a direct call of the validator function fn has returned
Called_(fn) == call.k = fn /\ call_result # Null

\* a value a dict does not hold, or holds as zero, None or ""
Missing(v) == v = Absent \/ ~Truthy(v)

\* the family of keys the first matching word of a lower-case type selects, in the order
\* prestressed concrete, steel, concrete, truss
KeyFamily(type) ==
    LET has(w) == Contains(type, w)
    IN  IF has(<<"p","r","e","s","t","r","e","s","s","e","d">>) /\ (has(<<"c","o","n","c","r","e","t","e">>) \/ has(<<"p","c">>)) THEN {"prestressed_concrete_beam"}
        ELSE IF has(<<"s","t","e","e","l">>) THEN {"steel_beam", "steel_truss"}
        ELSE IF has(<<"c","o","n","c","r","e","t","e">>) THEN {"concrete_beam", "concrete_arch"}
        ELSE IF has(<<"t","r","u","s","s">>) THEN {"truss"}
        ELSE {}

\* C13: for a positive span and depth, validate_span_to_depth_ratio takes its key from the
\* first family that the type names, in the order prestressed concrete, steel, concrete,
\* truss; with a key that has a range (min, max) it passes exactly when
\* min * depth <= span <= max * depth; with no key or no range it passes and says it skipped.
C13_SpanToDepthRatio ==
    Called_("validate_span_to_depth_ratio") /\ call.span.m > 0 /\ call.depth.m > 0 =>
        LET key == call_result.type_key
            scaled_span == call.span.m * Pow10(call.depth.e)
            scaled_depth == call.depth.m * Pow10(call.span.e)
        IN  /\ key \in KeyFamily(Lower(call.bridge_type)) \cup {""}
            /\ key \in DOMAIN span_to_depth_ratio =>
                   (call_result.valid <=>
                        /\ span_to_depth_ratio[key][1] * scaled_depth <= scaled_span
                        /\ scaled_span <= span_to_depth_ratio[key][2] * scaled_depth)
            /\ key \notin DOMAIN span_to_depth_ratio =>
                   call_result.valid /\ Contains(call_result.message, <<"s","k","i","p","p","e","d">>)

\* a prestressed concrete girder whose ratio is exactly the upper bound 30 has passed
C13_Witness ==
    /\ Called_("validate_span_to_depth_ratio")
    /\ call_result.type_key = "prestressed_concrete_beam"
    /\ call.span = Dec(60, 0) /\ call.depth = Dec(2, 0)
    /\ call_result.valid

\* the level an intensity text leads with: the number written by its first run of digits,
\* 0 when it has no digit (8 for an 8 followed by the degree sign, 6 for "6 (0.05g)")
LeadingLevel(s) ==
    LET starts == {i \in 1..Len(s) : IsDigit(s[i])}
        first == CHOOSE i \in starts : \A j \in starts : i <= j
    IN  IF starts = {} THEN 0 ELSE DigitsVal(SubSeq(s, first, After(s, first, "digit") - 1))

\* the design says something about seismic design: a seismic intensity, foundation notes,
\* other seismic details, or a connection note with a seismic keyword
SeismicMention(design_params) ==
    \/ ~Missing(design_params.seismic_design_intensity)
    \/ ~Missing(design_params.seismic_considerations_foundation)
    \/ ~Missing(design_params.other_seismic_details)
    \/ /\ design_params.beam_to_pier_connection.k = "str"
       /\ \E term \in SeismicTerms :
              Contains(Lower(design_params.beam_to_pier_connection.s), term)

\* C15: validate_seismic_requirements, given an intensity text whose leading level is 7 or
\* more, passes exactly when the design has a seismic mention; given a level below 7 it
\* always passes.
C15_SeismicLevelRule ==
    Called_("validate_seismic_requirements") /\ Truthy(call.seismic_intensity_str) =>
        IF LeadingLevel(call.seismic_intensity_str.s) >= 7
        THEN call_result.valid <=> SeismicMention(call.design_params)
        ELSE call_result.valid

(***************************************************************************)
(* The design generator                                                    *)
(***************************************************************************)
\* _verify_design has run
Verified == verification_notes # Null

\* generate_design_scheme has returned the design it assembled from a verified scheme
Generated == gen_pc = "done" /\ Verified

\* check i was skipped and counts as passed: nothing failed, its note says skipped, and the
\* closing note treats it as a passed check
SkippedAsPassed(i) ==
    /\ verify_locals[i].valid
    /\ Contains(Lower(verification_notes[i]), <<"s","k","i","p","p","e","d">>)
    /\ CountsAsPassed(verification_notes[i])

SomeCheckFailed == \E i \in 1..3 : ~verify_locals[i].valid

\* C16: the design generate_design_scheme returns for a verified scheme carries the scheme's
\* bridge type, materials, foundation and node fields unchanged and its structural
\* parameters with nothing but the rule's beam height (7/96 of the span) added, whatever the
\* checks found; it is never the error design.
C16_ValidationAdvisory ==
    Generated =>
        LET llm == llm_generated_scheme
            main == final_design.main_structural_parameters
            est == main.estimated_beam_height_from_rule_m
            span == main.main_span_m
        IN  /\ final_design.bridge_type_selection =
                   IF llm.bridge_type_selection = Absent
                   THEN [type |-> Str(<<"U","n","k","n","o","w","n">>), reason |-> Str(<<"N","/","A">>)]
                   ELSE llm.bridge_type_selection
            /\ \A f \in DOMAIN main \ {"estimated_beam_height_from_rule_m"} :
                   main[f] = llm.main_structural_parameters[f]
            /\ IF span = Absent THEN est = Absent
               ELSE 96 * Numer(est) * Denom(span) = 7 * Numer(span) * Denom(est)
            /\ final_design.material_specifications = llm.material_specifications
            /\ final_design.foundation_form_and_size = llm.foundation_form_and_size
            /\ final_design.key_node_construction = llm.key_node_construction
            /\ final_design.bridge_type_selection.type # Str(<<"E","r","r","o","r">>)
            /\ "error" \notin DOMAIN main

\* a design was returned although a check of it failed
C16_Witness ==
    /\ Generated
    /\ SomeCheckFailed
    /\ final_design.bridge_type_selection.type = Str(<<"S","t","e","e","l"," ","T","r","u","s","s"," ","B","r","i","d","g","e">>)
    /\ final_design.design_notes = verification_notes

\* the kind of check a note comes from, told by its wording
AboutSpanToDepth(note) ==
    Contains(note, <<"S","p","a","n","-","t","o","-","d","e","p","t","h"," ","r","a","t","i","o">>) \/ note = <<"S","p","a","n"," ","a","n","d"," ","d","e","p","t","h"," ","m","u","s","t"," ","b","e"," ","p","o","s","i","t","i","v","e"," ","v","a","l","u","e","s",".">>

AboutMaterials(note) ==
    \/ Contains(note, <<"M","a","t","e","r","i","a","l"," ","c","o","m","p","a","t","i","b","i","l","i","t","y">>)
    \/ Contains(note, <<"m","a","i","n"," ","b","e","a","m"," ","m","a","t","e","r","i","a","l">>)
    \/ Contains(note, <<"p","r","e","s","t","r","e","s","s","i","n","g"," ","s","t","e","e","l">>)

AboutSeismic(note) == Contains(Lower(note), <<"s","e","i","s","m","i","c">>)

\* the first three notes are the messages of the three checks, in order
ThreeCheckNotes ==
    /\ Len(verification_notes) >= 3
    /\ \A i \in 1..3 : verification_notes[i] = verify_locals[i].message
    /\ AboutSpanToDepth(verification_notes[1])
    /\ AboutMaterials(verification_notes[2])
    /\ AboutSeismic(verification_notes[3])

\* C17 as stated: the notes of a verified design are exactly the three messages of the
\* span-to-depth, material and seismic checks, in that order, and nothing else.
C17_ExactlyThreeNotes == Verified => ThreeCheckNotes /\ Len(verification_notes) = 3

\* C17 amended: the notes of a verified design are the three messages of the span-to-depth,
\* material and seismic checks, in that order, followed by exactly one closing note that
\* sums them up; the returned design carries these four notes.
C17_ThreeNotesAndSummary ==
    /\ Verified =>
           /\ ThreeCheckNotes
           /\ Len(verification_notes) = 4
           /\ Contains(verification_notes[4], <<"D","e","s","i","g","n"," ","v","e","r","i","f","i","c","a","t","i","o","n"," ","c","o","m","p","l","e","t","e","d">>)
    /\ Generated => final_design.design_notes = verification_notes

\* a design was returned with a failed span-to-depth check as its first note
C17_Witness ==
    /\ Generated
    /\ ~verify_locals[1].valid
    /\ Len(final_design.design_notes) = 4
    /\ final_design.design_notes[4] = WithWarnings

(***************************************************************************)
(* The geometry builder                                                    *)
(***************************************************************************)
\* 2 * t < w for two decimals
TwiceBelow(t, w) == 2 * t.m * Pow10(w.e) < w.m * Pow10(t.e)

\* C18: create_box_girder(L, W, H, t) returns an inner box exactly when t < W/2 and
\* t < H/2; the inner box measures W - 2t by H - 2t by L, and the outer box is always
\* W by H by L.
C18_BoxGirderInner ==
    Called_("create_box_girder") =>
        LET t == call.wall_thickness
            inner == call_result.inner
        IN  /\ inner # Null <=> TwiceBelow(t, call.width) /\ TwiceBelow(t, call.height)
            /\ inner # Null =>
                   /\ inner.type = "BoxGeometry"
                   /\ Add(inner.args[1], Add(t, t)) = call.width
                   /\ Add(inner.args[2], Add(t, t)) = call.height
                   /\ inner.args[3] = call.length
            /\ call_result.outer = BoxGeometry(call.width, call.height, call.length)

\* a girder whose wall is exactly half its width, and less than half its height, has no
\* inner box
C18_Witness ==
    /\ Called_("create_box_girder")
    /\ call.width = Dec(6, 1) /\ call.wall_thickness = Dec(3, 1) /\ call.height = Dec(3, 0)
    /\ call_result.inner = Null
    /\ call_result.outer.args = <<Dec(6, 1), Dec(3, 0), Dec(50, 0)>>

\* C19: create_pier and create_foundation answer an unknown type with a default box under
\* `shape` (for a pier the box 1 x height x 1) and an `error` field; the `error` field
\* is there exactly when the type is not cylindrical or rectangular (pier), pile_cap or
\* spread_footing (foundation).
C19_UnsupportedVariant ==
    /\ Called_("create_pier") =>
           /\ "error" \in DOMAIN call_result <=>
                  call.pier_type \notin {<<"c","y","l","i","n","d","r","i","c","a","l">>, <<"r","e","c","t","a","n","g","u","l","a","r">>}
           /\ "error" \in DOMAIN call_result =>
                  call_result.shape = BoxGeometry(Dec(1, 0), call.height, Dec(1, 0))
           /\ "shape" \in DOMAIN call_result
    /\ Called_("create_foundation") =>
           /\ "error" \in DOMAIN call_result <=>
                  call.foundation_type \notin {<<"p","i","l","e","_","c","a","p">>, <<"s","p","r","e","a","d","_","f","o","o","t","i","n","g">>}
           /\ "error" \in DOMAIN call_result =>
                  /\ "shape" \in DOMAIN call_result
                  /\ call_result.shape.type = "BoxGeometry"

\* an octagonal pier was answered with the default box and an error
C19_Witness ==
    /\ Called_("create_pier")
    /\ call.pier_type = <<"o","c","t","a","g","o","n","a","l">>
    /\ call.height = Dec(8, 0)
    /\ "error" \in DOMAIN call_result
    /\ call_result.shape.args = <<Dec(1, 0), Dec(8, 0), Dec(1, 0)>>

(***************************************************************************)
(* The scene generator                                                     *)
(***************************************************************************)
\* a <= b
AtMostDec(a, b) == a.m * Pow10(b.e) <= b.m * Pow10(a.e)

Lowest(S) == CHOOSE a \in S : \A b \in S : AtMostDec(a, b)

Highest(S) == CHOOSE a \in S : \A b \in S : AtMostDec(b, a)

\* how far a mesh reaches from its position along each axis: a box by half of each
\* dimension, a cylinder by its radius horizontally and half of its height vertically
Reach(mesh) ==
    IF mesh.type = "CylinderGeometry"
    THEN <<mesh.args[1], Half(mesh.args[3]), mesh.args[1]>>
    ELSE <<Half(mesh.args[1]), Half(mesh.args[2]), Half(mesh.args[3])>>

PlacedAt(mesh) == IF mesh.position = Null THEN Origin ELSE mesh.position.items

\* the axis-aligned bounding box of the meshes of a scene
BoxLow(meshes, axis) ==
    Lowest({Minus(PlacedAt(meshes[i])[axis], Reach(meshes[i])[axis]) : i \in 1..Len(meshes)})

BoxHigh(meshes, axis) ==
    Highest({Add(PlacedAt(meshes[i])[axis], Reach(meshes[i])[axis]) : i \in 1..Len(meshes)})

BoxCentre(meshes) ==
    [axis \in 1..3 |-> Half(Add(BoxLow(meshes, axis), BoxHigh(meshes, axis)))]

\* the largest extent of the box, at least 1.0
MaxDim(meshes) ==
    Highest({Minus(BoxHigh(meshes, axis), BoxLow(meshes, axis)) : axis \in 1..3}
            \cup {Dec(1, 0)})

Scaled(a, b) == Dec(a.m * b.m, a.e + b.e)

CameraFactors == <<Dec(75, 2), Dec(45, 2), Dec(12, 1)>>

FittedCamera(meshes) ==
    [axis \in 1..3 |-> Add(BoxCentre(meshes)[axis], Scaled(MaxDim(meshes), CameraFactors[axis]))]

\* C20: in a generated scene with components the camera looks at the centre of the
\* axis-aligned bounding box of all girders, piers and foundations, and stands at that
\* centre offset by the largest extent of the box (at least 1.0) times 0.75, 0.45 and 1.2
C20_CameraFromBoundingBox ==
    (/\ Called_("generate_bridge_scene")
     /\ call_result.k = "scene"
     /\ call_result.meshes # << >>)
    => /\ call_result.camera_look_at = BoxCentre(call_result.meshes)
       /\ call_result.camera_position = FittedCamera(call_result.meshes)

(***************************************************************************)
(* The drawings                                                            *)
(***************************************************************************)
\* the design a drawing call was made for
DesignDrawn ==
    CASE call.k = "generate_drawings" -> call.bridge_design
      [] call.k = "generate_drawings_api" -> call.design
      [] call.k = "generate_2d_drawing_api" -> call.data.design_data

\* the call has produced an elevation drawing
ElevationProduced ==
    /\ call_result # Null
    /\ CASE call.k = "generate_drawings" ->
               /\ call_result.k = "drawings"
               /\ <<"b","r","i","d","g","e","_","e","l","e","v","a","t","i","o","n","_","v","i","e","w">> \in DOMAIN call_result.svgs
          [] call.k = "generate_drawings_api" ->
               /\ call_result.k = "response"
               /\ call_result.elevation_view # Null
          [] call.k = "generate_2d_drawing_api" -> call_result.status = 200
          [] OTHER -> FALSE

ElevationDrawn ==
    CASE call.k = "generate_drawings" -> call_result.svgs[<<"b","r","i","d","g","e","_","e","l","e","v","a","t","i","o","n","_","v","i","e","w">>]
      [] call.k = "generate_drawings_api" -> call_result.elevation_view
      [] call.k = "generate_2d_drawing_api" -> call_result.svg_content

\* the design holds a first span and a girder depth
HoldsSpanAndDepth(d) ==
    /\ "span_lengths" \in DOMAIN d
    /\ d.span_lengths # << >>
    /\ "main_girder" \in DOMAIN d
    /\ d.main_girder # Null
    /\ "depth_m" \in DOMAIN d.main_girder
    /\ d.main_girder.depth_m # Absent

\* C21: on every path that produces an elevation drawing for a design that holds a span
\* and a girder depth, the drawing shows span_lengths[0] and main_girder.depth_m of the
\* design (to two decimals), not the defaults
C21_ElevationShowsDesignValues ==
    (ElevationProduced /\ HoldsSpanAndDepth(DesignDrawn))
    => /\ ElevationDrawn.span_text = <<"S","p","a","n",":"," ">> \o Fmt2(DesignDrawn.span_lengths[1]) \o <<" ","m">>
       /\ ElevationDrawn.depth_text
            = <<"D","e","p","t","h",":"," ">> \o Fmt2(DesignDrawn.main_girder.depth_m) \o <<" ","m">>

Requested == {call.drawing_types[i] : i \in 1..Len(call.drawing_types)}

Supported == {SupportedDrawingTypes[i] : i \in 1..Len(SupportedDrawingTypes)}

\* the svgs a response of POST /api/generate_drawings carries
Carried(payload) ==
    {payload.section_views[i] : i \in 1..Len(payload.section_views)}
    \cup {payload.detail_drawings[i] : i \in 1..Len(payload.detail_drawings)}
    \cup ({payload.elevation_view, payload.plan_view} \ {Null})

\* C22: for every list of drawing types generate_drawings returns, without raising, one
\* svg per requested type, and the response of the endpoint carries the svg of every
\* requested type that is documented as supported
C22_EveryTypeDrawn ==
    /\ Called_("generate_drawings") =>
           /\ call_result.k = "drawings"
           /\ DOMAIN call_result.svgs = Requested
    /\ Called_("generate_drawings_api") =>
           /\ call_result.k = "response"
           /\ \A t \in Requested \cap Supported :
                  DrawingFor(call.design, t) \in Carried(call_result)

(***************************************************************************)
(* Refinement, called directly                                             *)
(***************************************************************************)
\* C23: whenever "continuous" occurs in the bridge type preference, the standardized
\* bridge type that refinement produces contains "Continuous ", whichever base type the
\* keywords selected
C23_ContinuousPrefixed ==
    (/\ Called_("refine_parameters_with_knowledge")
     /\ ~call_result.raised
     /\ Contains(Lower(TextOf(call.llm_extracted_params.bridge_type_preference)),
                 <<"c","o","n","t","i","n","u","o","u","s">>))
    => Contains(call_result.standardized_bridge_type.s, <<"C","o","n","t","i","n","u","o","u","s"," ">>)

(***************************************************************************)
(* Material compatibility                                                  *)
(***************************************************************************)
\* the text the material check reads as the main beam material
MainBeamText(materials) ==
    OrText(Lower(StrOr(materials.main_beams_material, << >>)),
           OrText(Lower(StrOr(materials.main_beams, << >>)),
                  Lower(StrOr(materials.concrete_grade, << >>))))

\* a grade code: C followed by digits, as "C40" and "C40/50" are
GradeCode(text) == Len(text) >= 2 /\ text[1] = "c" /\ IsDigit(text[2])

\* C24: for a concrete bridge type the material check raises no objection about
\* concrete whenever the main beam material mentions concrete or is a grade code,
\* the default grade "C40/50" included
C24_GradeCodeAccepted ==
    (/\ Called_("validate_material_compatibility")
     /\ Contains(Lower(call.bridge_type), <<"c","o","n","c","r","e","t","e">>)
     /\ \/ Contains(MainBeamText(call.materials), <<"c","o","n","c","r","e","t","e">>)
        \/ GradeCode(MainBeamText(call.materials)))
    => ~Contains(call_result.message, <<"s","u","g","g","e","s","t","s"," ","c","o","n","c","r","e","t","e",",">>)

(***************************************************************************)
(* The provider calls                                                      *)
(***************************************************************************)
\* the calls of the running analysis that go over HTTP
HttpCalls == {i \in 1..Len(calls) : calls[i].provider \in {"deepseek", "ollama"}}

\* an analysis is running
Analysing == llm_pc \notin {"idle", "returned"}

\* the pass of the retry loop in progress is at most the (max_retries + 1)-th, an analysis
\* calls each HTTP provider at most once and Qwen at most once, and a call that has
\* returned gave parsed content or an error record
AttemptsBounded ==
    /\ attempt <= max_retries
    /\ Cardinality(HttpCalls) <= 2
    /\ \A i, j \in 1..Len(calls) : calls[i].provider = calls[j].provider => i = j
    /\ \A i \in 1..Len(calls) :
          calls[i].result.kind \in {"pending", "params", "error", "empty"}

\* C25: a call of _call_deepseek or _call_ollama makes at most max_retries + 1 HTTP
\* attempts and returns parsed content or an error record, so that an analysis makes at
\* most 2 * (max_retries + 1) HTTP attempts and one Qwen call, and every analysis that
\* was started returns
C25_AnalysisTerminates ==
    /\ []AttemptsBounded
    /\ [](Analysing => <>(llm_pc = "returned"))

\* both HTTP providers have used every attempt and Qwen has answered
C25_Witness ==
    /\ llm_pc = "returned"
    /\ attempt = max_retries
    /\ llm_config["deepseek"] /\ llm_config["ollama"]
    /\ Len(calls) = 3
    /\ call_stats["deepseek"].errors > 0 /\ call_stats["ollama"].errors > 0
    /\ returned.provider = "Qwen"

\* the failures after which the claim lets the loop go on: HTTP 5xx, HTTP 429, a timeout,
\* another request error
RetryableFailures == {"http_5xx", "http_429", "timeout", "request_error"}

\* the failures after which no further attempt is made
FinalFailures == {"bad_structure", "json_error", "http_4xx", "connect_error", "unknown", "not_dict"}

\* the retry loop of provider p stands before an HTTP attempt
BeforeAttempt(p) == llm_pc = "http_" \o p

\* C26: within one provider call an HTTP attempt other than the first is made only after
\* the previous attempt failed with HTTP 5xx, HTTP 429, a timeout or another request error;
\* after a JSON decode error, another 4xx status, a connection error, an unexpected
\* response structure or an unknown exception, and after an attempt that returned its
\* content, no attempt follows
C26_RetryOnlyAfterRetryable ==
    /\ \A p \in {"deepseek", "ollama"} :
          BeforeAttempt(p) =>
             /\ calls[Len(calls)] = [provider |-> p, result |-> Pending]
             /\ IF attempt = 0
                THEN last_exception_info = "None"
                ELSE last_exception_info \in RetryableFailures
    /\ last_exception_info \in FinalFailures =>
          \A p \in {"deepseek", "ollama"} : ~BeforeAttempt(p)

\* Ollama is tried a third time after a rate limit answer and a timeout, DeepSeek having
\* stopped at its first attempt
C26_Witness ==
    /\ BeforeAttempt("ollama")
    /\ attempt = 2
    /\ last_exception_info = "timeout"
    /\ Len(calls) = 2
    /\ calls[1].result.kind = "error"
    /\ call_stats["deepseek"].attempts = 1

(***************************************************************************)
(* The closing note of the verification                                    *)
(***************************************************************************)
\* the closing note says that all checks passed
SaysAllPassed == Contains(verification_notes[4], <<"A","l","l"," ","c","h","e","c","k","s"," ","p","a","s","s","e","d"," ","o","r"," ","w","e","r","e"," ","n","o","n","-","c","r","i","t","i","c","a","l">>)

\* each of the three checks returned passed = true or was skipped
AllThreePassed == \A i \in 1..3 : verify_locals[i].valid

\* C27: the closing note of _verify_design says "All checks passed or were non-critical"
\* exactly when the span-to-depth, the material and the seismic check all passed or were
\* skipped.
C27_SummaryIsConjunction == Verified => (SaysAllPassed <=> AllThreePassed)

(***************************************************************************)
(* The call statistics                                                     *)
(***************************************************************************)
\* a call of provider p has counted its attempt and has not returned yet
InFlight(p) == llm_pc = "http_" \o p

\* the calls of provider p that were counted as a success or as an error
Settled(p) == call_stats[p].success + call_stats[p].errors

ExtractedParams == [kind |-> returned.result.kind, params |-> NoParams]

\* the analysis that returned gave an intent without an error, from one of the three
\* providers, and the design made from it is not the sentinel of a failed analysis
YieldsIntent ==
    LET analyzed == analyze_user_requirements(ExtractedParams)
    IN  /\ returned.provider \in {"DeepSeek", "Ollama", "Qwen"}
        /\ ~Truthy(analyzed.error)
        /\ generate_preliminary_design(Body(NoConditions, NoConstraints), analyzed).bridge_type
              # Str(<<"E","r","r","o","r"," ","-"," ","A","n","a","l","y","s","i","s"," ","F","a","i","l","e","d">>)

\* C29: the Qwen mock always answers without an error, so analyze_text_with_failover with
\* the built-in template never returns provider "none", whatever DeepSeek and Ollama do:
\* every analysis that is started comes to return an intent without an error, and the
\* "Error - Analysis Failed" design does not come from provider failures.
C29_NeverAllProvidersFailed ==
    /\ [](llm_pc = "returned" => YieldsIntent)
    /\ [](Analysing => <>(llm_pc = "returned" /\ YieldsIntent))

\* DeepSeek answered with an error record, Ollama with empty content, and Qwen stepped in
C29_Witness ==
    /\ llm_pc = "returned"
    /\ results["deepseek"].kind = "error"
    /\ call_stats["deepseek"].attempts > 0
    /\ results["ollama"].kind = "empty"
    /\ returned = [result |-> mock_response, provider |-> "Qwen"]

(***************************************************************************)
(* The notes of the design                                                 *)
(***************************************************************************)
\* a dict with at least one key
HasEntries(d) == \E f \in DOMAIN d : d[f] # Absent

\* the note entry holds the text of dict d
NoteOf(entry, d) == entry # Absent /\ entry.of = d

\* the design returned for request t carries the conditions and the constraints that
\* were given, and with them the seismic intensity of the request
CarriesNotes(t) ==
    LET conditions == body[t].project_conditions
        constraints == body[t].design_constraints
    IN  /\ HasEntries(conditions) => NoteOf(design[t].main_girder.project_notes, conditions)
        /\ HasEntries(constraints) => NoteOf(design[t].pier_design.constraints_notes, constraints)
        /\ Truthy(conditions.seismic_intensity) =>
               /\ design[t].main_girder.project_notes # Absent
               /\ design[t].main_girder.project_notes.of.seismic_intensity =
                      conditions.seismic_intensity

====
